---- MODULE Spec2Model ----
(***************************************************************************)
(* A model of the pid-symbols classification-and-geometry pipeline:        *)
(*   - classifier.py : the ordered classification cascade                  *)
(*   - metadata.py   : stem normalisation, stem reservation, record build  *)
(*   - src/utils.py  : slugs and the quality score                         *)
(*   - snap_points.py: the four port-detection strategies                  *)
(*   - main.py       : the per-file loop with deduplication                *)
(*                                                                         *)
(* Text is modelled as a sequence of tokens (a word, a separator, or a     *)
(* bracketed standard tag); a slug is the string obtained by joining the   *)
(* slug pieces of the tokens.                                              *)
(***************************************************************************)
EXTENDS Integers, Sequences, FiniteSets, TLC

VARIABLES
    cl_path,        \* classify: the path handed to classify()
    cl_result,      \* classify: Pending, a ClassificationResult, or a raise
    pc,             \* main: "loop" while files remain, "done" after the summary,
                    \*       "aborted" when an exception has left main
    dry_run,        \* main: args.dry_run
    idx,            \* main: position in svg_files of the last file taken
    registry,       \* main: the live list of metadata records
    hash_map,       \* main: content hash -> id of the live record
    hashes,         \* main: content hash -> list of ids
    used_stems,     \* main: target directory -> set of reserved stems
    processed_count,
    errors,
    duplicates,
    conf_counts,    \* main: confidence -> number of files
    svg_files_out,  \* the .svg files under processed/: set of [dir, stem]
    json_files,     \* the .json files under processed/: [dir, stem] -> record
    registry_file,  \* processed/registry.json, None until written
    sp_doc,         \* detect_snap_points: the parsed document
    sp_category,    \* detect_snap_points: the category argument
    sp_result,      \* detect_snap_points: Pending, a returned list, or a raise
    pd_d,           \* path data: the d attribute handed to the two extractions
    pd_ends,        \* path data: Pending or what _path_open_endpoints returns
    pd_segs,        \* path data: Pending or the segments _straight_segments adds
    hs_a,           \* hashing: the text of a document, as tokens
    hs_b,           \* hashing: the same document with its identifiers renamed
    hs_main,        \* hashing: Pending or the two digests main.py computes
    hs_utils,       \* hashing: Pending or the two digests utils.py computes
    bm_path,        \* build: the source file main hands to lines 1755-1763
    bm_meta,        \* build: Pending, the record build_metadata returns, or a raise
    sl_path,        \* source slug: the path handed to _source_slug_from_path, split at /
    sl_result,      \* source slug: Pending or the slug returned
    pt_input_dir,   \* Paths._input_dir: NoDir for None, else a resolved path
    pt_processed_dir, \* Paths._processed_dir
    pt_configured,  \* Paths._configured
    pt_module,      \* paths module: its REPO_ROOT, INPUT_DIR, PROCESSED_DIR bindings
    pt_calls,       \* history: the configure and reset calls made, in order
    mg_pc,          \* migrate: "idle", "scan" or "done"
    mg_dry_run,     \* migrate: the dry_run argument
    mg_idx,         \* migrate: slot of the last .json file the first loop took
    mg_moves,       \* migrate: moves, each the slot moved from and its record
    mg_used_stems,  \* migrate: used_stems, as directory and stem pairs
    mg_hash_map,    \* migrate: hash_map, content hash to record
    mg_hashes,      \* migrate: hashes, content hash to list of ids
    mg_skipped,     \* migrate: skipped
    mg_registry,    \* migrate: registry.json as rewritten, None before
    log             \* history: what became of each file whose pass ended, in order

(***************************************************************************)
(* Generic helpers                                                         *)
(***************************************************************************)
None    == [tag |-> "None"]
Pending == [tag |-> "Pending"]
Raise(e) == [raise |-> e]
IsRaise(r) == "raise" \in DOMAIN r

RECURSIVE Concat(_)
Concat(s) == IF s = <<>> THEN "" ELSE Head(s) \o Concat(Tail(s))

StartsWith(s, p) == Len(p) <= Len(s) /\ SubSeq(s, 1, Len(p)) = p
Contains(s, k) ==
    \E i \in 1..(Len(s) - Len(k) + 1) : SubSeq(s, i, i + Len(k) - 1) = k
Drop(s, n) == SubSeq(s, n + 1, Len(s))

Range(seq) == {seq[i] : i \in DOMAIN seq}

RECURSIVE Flatten(_)
Flatten(ss) == IF ss = <<>> THEN <<>> ELSE Head(ss) \o Flatten(Tail(ss))

\* all sequences over S of length at most n
RECURSIVE SeqsUpTo(_, _)
SeqsUpTo(S, n) ==
    IF n = 0 THEN {<<>>}
    ELSE LET shorter == SeqsUpTo(S, n - 1)
         IN  shorter \cup {Append(s, t) : s \in shorter, t \in S}

(***************************************************************************)
(* Tokens: str.lower(), the _STANDARD_RE and _REFERENCE_RE matches, and    *)
(* the pieces a token leaves in a slug.                                    *)
(***************************************************************************)
Lower(t) ==
    CASE t = "Valve"           -> "valve"
      [] t = "(ISO 10628-2)"   -> "(iso 10628-2)"
      [] t = "Symbols Sheet 1" -> "symbols sheet 1"
      [] t = "ISO 10628-2"     -> "iso 10628-2"
      [] t = "ISA"             -> "isa"
      [] t = "PIP"             -> "pip"
      [] OTHER                 -> t
LowerSeq(s) == [i \in 1..Len(s) |-> Lower(s[i])]

\* _STANDARD_RE = \(\s*((?:ISO|DIN|ISA)\s*[\d\-]+(?:-\d+)?)\s*\)
STANDARD_RE(t) == t \in {"(ISO 10628-2)"}
StandardGroup(t) == CASE t = "(ISO 10628-2)" -> "ISO 10628-2" [] OTHER -> ""

\* _REFERENCE_RE, case-insensitive: symbols\s+sheet\s+\d | ...
REFERENCE_RE(s) == \E i \in 1..Len(s) : Lower(s[i]) = "symbols sheet 1"

\* _STANDARD_RE.sub("", stem)
StandardSub(s) == SelectSeq(s, LAMBDA t : ~STANDARD_RE(t))

\* str.strip().strip(",").strip()
RECURSIVE Strip(_)
Strip(s) ==
    IF s = <<>> THEN s
    ELSE IF Head(s) \in {" ", ","} THEN Strip(Tail(s))
    ELSE IF s[Len(s)] \in {" ", ","} THEN Strip(SubSeq(s, 1, Len(s) - 1))
    ELSE s

\* what _slugify leaves of one token: lower-cased word pieces, "_" for every
\* run of whitespace, hyphen, comma or slash, nothing for other punctuation
SlugPieces(t) ==
    CASE t \in {" ", "_", "-", ","}           -> <<"_">>
      [] t \in {"(ISO 10628-2)", "ISO 10628-2"} -> <<"iso", "_", "10628", "_", "2">>
      [] t = "Symbols Sheet 1"                -> <<"symbols", "_", "sheet", "_", "1">>
      [] t = ".svg"                           -> <<"svg">>
      [] t = "autocad-parser"                 -> <<"autocad", "_", "parser">>
      [] t = "pid-symbols-generator"          -> <<"pid", "_", "symbols", "_", "generator">>
      [] OTHER                                -> <<Lower(t)>>

RECURSIVE CollapseUnderscores(_)
CollapseUnderscores(ps) ==
    IF Len(ps) < 2 THEN ps
    ELSE IF ps[1] = "_" /\ ps[2] = "_" THEN CollapseUnderscores(Tail(ps))
    ELSE <<Head(ps)>> \o CollapseUnderscores(Tail(ps))

StripUnderscores(ps) ==
    LET a == IF ps # <<>> /\ Head(ps) = "_" THEN Tail(ps) ELSE ps
    IN  IF a # <<>> /\ a[Len(a)] = "_" THEN SubSeq(a, 1, Len(a) - 1) ELSE a

\* _slugify as a sequence of pieces, then as the string
SlugSeq(s) ==
    StripUnderscores(CollapseUnderscores(Flatten([i \in 1..Len(s) |-> SlugPieces(s[i])])))
slugify(s) == Concat(SlugSeq(s))

\* _extract_standard_from_name: the first tag of the stem, "" for None
extract_standard_from_name(stem) ==
    LET tags == SelectSeq(stem, STANDARD_RE)
    IN  IF tags = <<>> THEN "" ELSE StandardGroup(Head(tags))

(***************************************************************************)
(* Classification maps (constants.py), restricted to the folder names and  *)
(* tokens of the model; KEYWORD_HEURISTICS keeps the order of the source.  *)
(***************************************************************************)
FileMark == "<file>"      \* the file's own name as the last path component

AUTOCAD_FOLDER_MAP ==
    ("isa_valves_svg" :> <<"ISA", "valve">>) @@
    ("iso_instruments_svg" :> <<"ISO 10628-2", "instrument">>)

DOWNLOADED_FOLDER_MAP == ("valves" :> "valve") @@ ("pipes" :> "pipe")

\* prefix -> (standard, category), in dict order
GENERATED_PREFIX_MAP ==
    << <<(<<"valve", "_">>), "ISA", "valve">>,
       <<(<<"bubble", "_">>), "ISA", "instrument_bubble">> >>

\* (keyword, category), in list order: lines 83, 106, 117, 123, 153
KEYWORD_HEURISTICS ==
    << <<(<<"valve">>), "valve">>,
       <<(<<"instrument">>), "instrument">>,
       <<(<<"instrument">>), "instrument">>,
       <<(<<"pipe">>), "piping">>,
       <<(<<"discrete", " ", "instrument">>), "instrument_bubble">> >>

PIPING_STEM_PREFIXES == << <<"pip", "_">>, <<"pipa", "_">> >>

PIP_CATEGORIES == {"piping", "line_type", "pipe"}

(***************************************************************************)
(* Paths.  rel says where the path lies: "inside" INPUT_DIR (dirs are the  *)
(* folders below it), "root" (the path is INPUT_DIR itself) or "outside"   *)
(* (relative_to raises ValueError; dirs are the folders above the file).   *)
(* anc is "isa" / "iso" when a component above dirs starts with it.        *)
(***************************************************************************)
RelParts(p) == IF p.rel = "root" THEN <<>> ELSE Append(p.dirs, FileMark)

\* svg_path.parent.name
ParentName(p) == IF p.dirs = <<>> THEN "input" ELSE p.dirs[Len(p.dirs)]

\* "isa" / "iso" when the lower-cased component starts with it, else ""
PartStd(name) ==
    CASE name \in {"isa_valves_svg", "isa"}       -> "isa"
      [] name \in {"iso_instruments_svg", "iso"}  -> "iso"
      [] OTHER                                    -> ""

\* svg_path.parts, each reduced to PartStd
PathPartStds(p) ==
    <<p.anc>> \o [i \in 1..Len(p.dirs) |-> PartStd(p.dirs[i])]
              \o <<IF p.stem = <<>> THEN "" ELSE PartStd(Lower(Head(p.stem)))>>

\* index of the first element of seq satisfying Test, 0 if none
FirstIndex(seq, Test(_)) ==
    IF \E i \in 1..Len(seq) : Test(seq[i])
    THEN CHOOSE i \in 1..Len(seq) :
            Test(seq[i]) /\ \A j \in 1..(i - 1) : ~Test(seq[j])
    ELSE 0

(***************************************************************************)
(* classifier.py: the six strategies and classify                          *)
(***************************************************************************)
Result(std, cat, sub, conf, meth) ==
    [standard |-> std, category |-> cat, subcategory |-> sub,
     confidence |-> conf, method |-> meth]

strategy_reference_sheet(p) ==
    IF REFERENCE_RE(p.stem)
    THEN LET std == extract_standard_from_name(p.stem)
         IN  Result(IF std # "" THEN std ELSE "ISO 10628-2", "reference_sheet",
                    slugify(p.stem), "high", "reference_sheet_detection")
    ELSE None

strategy_autocad_folder(p) ==
    IF p.rel = "outside" THEN None
    ELSE LET rel_parts == RelParts(p) IN
    IF rel_parts = <<>> THEN Raise("IndexError")
    ELSE IF rel_parts[1] # "autocad-parser" \/ Len(rel_parts) < 2 THEN None
    ELSE LET folder == rel_parts[2] IN
    IF folder \notin DOMAIN AUTOCAD_FOLDER_MAP THEN None
    ELSE LET standard == AUTOCAD_FOLDER_MAP[folder][1]
             category == AUTOCAD_FOLDER_MAP[folder][2]
             low      == LowerSeq(p.stem)
             pip      == FirstIndex(PIPING_STEM_PREFIXES, LAMBDA x : StartsWith(low, x))
             prefixes == << <<"isa", "_", category, "_">>, <<"iso", "_", category, "_">>,
                            <<"isa", "_">>, <<"iso", "_">>, <<"pip", "_">>, <<"pipa", "_">> >>
             k        == FirstIndex(prefixes, LAMBDA x : StartsWith(low, x))
         IN  IF pip # 0
             THEN Result("PIP", category,
                         Concat(Drop(p.stem, Len(PIPING_STEM_PREFIXES[pip]))),
                         "high", "autocad_folder_map")
             ELSE Result(standard, category,
                         IF k = 0 THEN Concat(p.stem)
                                  ELSE Concat(Drop(p.stem, Len(prefixes[k]))),
                         "high", "autocad_folder_map")

strategy_filename_standard(p) ==
    LET standard == extract_standard_from_name(p.stem) IN
    IF standard = "" THEN None
    ELSE LET parent   == ParentName(p)
             stem_low == LowerSeq(p.stem)
             k        == FirstIndex(KEYWORD_HEURISTICS,
                                    LAMBDA x : Contains(stem_low, x[1]))
             category == IF parent \in DOMAIN DOWNLOADED_FOLDER_MAP
                         THEN DOWNLOADED_FOLDER_MAP[parent]
                         ELSE IF k # 0 THEN KEYWORD_HEURISTICS[k][2]
                         ELSE "uncategorized"
         IN  Result(standard, category, slugify(Strip(StandardSub(p.stem))),
                    "high", "filename_standard_tag")

strategy_downloaded_folder(p) ==
    IF p.rel = "outside" THEN None
    ELSE LET rel_parts == RelParts(p) IN
    IF rel_parts = <<>> THEN Raise("IndexError")
    ELSE IF rel_parts[1] # "pid-symbols-generator" THEN None
    ELSE IF Len(rel_parts) < 2 \/ rel_parts[2] # "downloaded" THEN None
    ELSE IF Len(rel_parts) < 3 THEN None
    ELSE LET folder == rel_parts[3] IN
    IF folder \notin DOMAIN DOWNLOADED_FOLDER_MAP THEN None
    ELSE Result("ISO 10628-2", DOWNLOADED_FOLDER_MAP[folder],
                slugify(Strip(StandardSub(p.stem))), "high", "downloaded_folder_map")

strategy_generated_prefix(p) ==
    IF p.rel = "outside" THEN None
    ELSE LET rel_parts == RelParts(p) IN
    IF rel_parts = <<>> THEN Raise("IndexError")
    ELSE IF rel_parts[1] # "pid-symbols-generator" THEN None
    ELSE IF Len(rel_parts) < 2 \/ rel_parts[2] # "generated" THEN None
    ELSE LET k == FirstIndex(GENERATED_PREFIX_MAP, LAMBDA x : StartsWith(p.stem, x[1])) IN
    IF k = 0 THEN None
    ELSE Result(GENERATED_PREFIX_MAP[k][2], GENERATED_PREFIX_MAP[k][3],
                Concat(Drop(p.stem, Len(GENERATED_PREFIX_MAP[k][1]))),
                "high", "generated_prefix_map")

\* sorted(KEYWORD_HEURISTICS, key=lambda x: -len(x[0])): a stable insertion sort
KeyLen(x) == Len(Concat(x[1]))
RECURSIVE InsertByLen(_, _)
InsertByLen(x, sorted) ==
    IF sorted = <<>> THEN <<x>>
    ELSE IF KeyLen(Head(sorted)) >= KeyLen(x)
         THEN <<Head(sorted)>> \o InsertByLen(x, Tail(sorted))
         ELSE <<x>> \o sorted
RECURSIVE SortByLenDesc(_)
SortByLenDesc(seq) ==
    IF seq = <<>> THEN <<>>
    ELSE InsertByLen(seq[Len(seq)], SortByLenDesc(SubSeq(seq, 1, Len(seq) - 1)))

KeywordConfidenceHigh == "high"
\* "confidence": "low" of the keyword strategy
KeywordConfidence == "low"

strategy_keyword_heuristics(p) ==
    LET stem_low == LowerSeq(p.stem)
        sorted   == SortByLenDesc(KEYWORD_HEURISTICS)
        k        == FirstIndex(sorted, LAMBDA x : Contains(stem_low, x[1]))
        stds     == PathPartStds(p)
        j        == FirstIndex(stds, LAMBDA x : x # "")
        standard == IF j = 0 THEN "unknown"
                    ELSE IF stds[j] = "isa" THEN "ISA" ELSE "ISO 10628-2"
    IN  IF k = 0 THEN None
        ELSE Result(standard, sorted[k][2], slugify(p.stem), KeywordConfidence,
                    "keyword_heuristic")

Unclassified(p) == Result("unknown", "unknown", slugify(p.stem), "none", "unclassified")

NumStrategies == 6
StrategyFolderFirst(i, p) ==
    CASE i = 1 -> strategy_autocad_folder(p)
      [] i = 2 -> strategy_reference_sheet(p)
      [] i = 3 -> strategy_filename_standard(p)
      [] i = 4 -> strategy_downloaded_folder(p)
      [] i = 5 -> strategy_generated_prefix(p)
      [] i = 6 -> strategy_keyword_heuristics(p)
\* the tuple of strategies classify iterates over, in order
Strategy(i, p) ==
    CASE i = 1 -> strategy_reference_sheet(p)
      [] i = 2 -> strategy_autocad_folder(p)
      [] i = 3 -> strategy_filename_standard(p)
      [] i = 4 -> strategy_downloaded_folder(p)
      [] i = 5 -> strategy_generated_prefix(p)
      [] i = 6 -> strategy_keyword_heuristics(p)

\* for strategy in (...): result = strategy(svg_path); if result: return result
RECURSIVE RunStrategies(_, _)
RunStrategies(i, p) ==
    IF i > NumStrategies THEN Unclassified(p)
    ELSE LET result == Strategy(i, p)
         IN  IF result # None THEN result ELSE RunStrategies(i + 1, p)

classify(p) == RunStrategies(1, p)

(***************************************************************************)
(* utils.py / metadata.py: slugs, target directory, stem, quality          *)
(***************************************************************************)
safe_std_slug(standard) == slugify(<<standard>>)

\* source_path.split("/"): "input", the folders, the file name
SourceParts(p) ==
    << <<"input">> >> \o [i \in 1..Len(p.dirs) |-> <<p.dirs[i]>>]
                      \o << Append(p.stem, ".svg") >>

source_slug_from_path(parts) ==
    IF Len(parts) < 2 THEN "unknown_source"
    ELSE LET top == parts[2] IN
    IF top = <<"autocad-parser">> THEN "autocad_parser"
    ELSE IF top = <<"pid-symbols-generator">>
         THEN IF Len(parts) >= 3
              THEN "pid_symbols_generator_" \o slugify(LowerSeq(parts[3]))
              ELSE "pid_symbols_generator"
    ELSE IF slugify(top) # "" THEN slugify(top) ELSE "unknown_source"

normalize_stem(stem, standard) ==
    LET clean    == Strip(StandardSub(stem))
        body     == IF SlugSeq(clean) # <<>> THEN SlugSeq(clean) ELSE SlugSeq(stem)
        std_slug == SlugSeq(<<standard>>)
        shorts   == <<"isa", "iso", "din", "pip">>
        k        == FirstIndex(shorts,
                       LAMBDA w : Head(std_slug) = w /\ StartsWith(body, <<w, "_">>))
        body2    == IF k = 0 THEN body ELSE Drop(body, 2)
    IN  IF standard = "unknown" \/ StartsWith(body, Append(std_slug, "_"))
                                \/ body = std_slug
        THEN Concat(body)
        ELSE Concat(std_slug) \o "_" \o Concat(body2)

PROCESSED_DIR == "processed"

processed_dir_for(classification, parts) ==
    LET cat         == classification.category
        source_slug == source_slug_from_path(parts)
    IN  IF cat \in PIP_CATEGORIES
        THEN PROCESSED_DIR \o "/" \o source_slug \o "/pip/" \o cat
        ELSE PROCESSED_DIR \o "/" \o source_slug \o "/"
                \o safe_std_slug(classification.standard) \o "/" \o cat

StemTakenOnDiskOnly(stem, target_dir, used, on_disk) ==
    [dir |-> target_dir, stem |-> stem] \in on_disk
\* the loop condition of resolve_stem
StemTaken(stem, target_dir, used, on_disk) ==
    stem \in used \/ [dir |-> target_dir, stem |-> stem] \in on_disk

RECURSIVE ResolveLoop(_, _, _, _, _, _)
ResolveLoop(base_stem, target_dir, used, on_disk, stem, counter) ==
    IF StemTaken(stem, target_dir, used, on_disk)
    THEN ResolveLoop(base_stem, target_dir, used, on_disk,
                     base_stem \o "_" \o ToString(counter), counter + 1)
    ELSE stem

\* the stem returned; the caller's set becomes used \cup {stem}
resolve_stem(base_stem, target_dir, used, on_disk) ==
    ResolveLoop(base_stem, target_dir, used, on_disk, base_stem, 2)

ConfidenceWeight(conf) ==
    CASE conf = "high" -> 3 [] conf = "low" -> 1 [] OTHER -> 0

metadata_quality(meta) ==
    Len(meta.snap_points)
    + (IF meta.notes # "" THEN 2 ELSE 0)
    + (IF meta.completed THEN 5 ELSE 0)
    + ConfidenceWeight(meta.classification.confidence)

\* the record build_metadata returns (the fields the pipeline reads), with
\* the content hash main adds to it
build_metadata(src, final_stem, classification, parts, snap_points, content_hash) ==
    LET source_slug == source_slug_from_path(parts)
        target_dir  == processed_dir_for(classification, parts)
        cat         == classification.category
        symbol_id   ==
            IF cat \in PIP_CATEGORIES
            THEN source_slug \o "/pip/" \o cat \o "/" \o final_stem
            ELSE source_slug \o "/" \o safe_std_slug(classification.standard)
                    \o "/" \o cat \o "/" \o final_stem
    IN  [id             |-> symbol_id,
         filename       |-> final_stem \o ".svg",
         standard       |-> classification.standard,
         category       |-> classification.category,
         subcategory    |-> classification.subcategory,
         source_path    |-> src,
         svg_path       |-> target_dir \o "/" \o final_stem \o ".svg",
         classification |-> [confidence |-> classification.confidence,
                             method     |-> classification.method],
         snap_points    |-> snap_points,
         notes          |-> "",
         completed      |-> FALSE,
         content_hash   |-> content_hash]

clvars == <<cl_path, cl_result>>
spvars == <<sp_doc, sp_category, sp_result>>
pdvars == <<pd_d, pd_ends, pd_segs>>
hsvars == <<hs_a, hs_b, hs_main, hs_utils>>
bmvars == <<bm_path, bm_meta>>
slvars == <<sl_path, sl_result>>
ptvars == <<pt_input_dir, pt_processed_dir, pt_configured, pt_module, pt_calls>>
mgvars == <<mg_pc, mg_dry_run, mg_idx, mg_moves, mg_used_stems, mg_hash_map, mg_hashes, mg_skipped, mg_registry>>

(***************************************************************************)
(* main.py: the corpus, and one iteration of the per-file loop             *)
(***************************************************************************)
\* sorted(INPUT_DIR.rglob("*.svg")): the files a corpus may hold, in path
\* order; a run takes any sub-sequence of them
CorpusPath(dirs, stem) == [rel |-> "inside", anc |-> "", dirs |-> dirs, stem |-> stem]
CorpusPaths ==
    << CorpusPath(<<"misc", "a">>, <<"valve">>),
       CorpusPath(<<"misc", "a">>, <<"valve", "_", "2">>),
       CorpusPath(<<"misc", "a">>, <<"valve", "_debug">>),
       CorpusPath(<<"misc", "b">>, <<"valve">>),
       CorpusPath(<<"misc", "iso">>, <<"valve", " ", "(ISO 10628-2)">>),
       CorpusPath(<<"misc", "iso">>, <<"valve">>) >>

\* what a file holds, as far as the loop reads it: its content hash, the
\* snap points detect_snap_points finds in it, whether build_metadata raises
\* on it, and whether writing its metadata raises (json.dump of a record
\* whose original_filename cannot be encoded as UTF-8)
MaxSnaps == 1
ContentHashes == {"h1", "h2"}
DetectedPoints(n) == [i \in 1..n |-> [id |-> "p" \o ToString(i), by |-> "detected"]]
Contents ==
    [hash : ContentHashes, snaps : 0..MaxSnaps, raises : {FALSE}, unwritable : {FALSE}]
    \cup [hash : {"h1"}, snaps : {0}, raises : {TRUE}, unwritable : {FALSE}]
    \cup [hash : {"h1"}, snaps : {0}, raises : {FALSE}, unwritable : {TRUE}]

\* what open(json_path, "w") leaves behind when json.dump raises part-way
Truncated == [tag |-> "Truncated"]

\* files already under processed/ when the run starts
PreExisting == {[dir |-> "processed/misc/unknown/valve", stem |-> "valve"]}

SetDefault(f, k, v) == IF k \in DOMAIN f THEN f ELSE f @@ (k :> v)
Put(f, k, v) == [x \in DOMAIN f \cup {k} |-> IF x = k THEN v ELSE f[x]]
Get(f, k, d) == IF k \in DOMAIN f THEN f[k] ELSE d

\* next((m for m in registry if m.get("id") == existing_id), None)
FindById(reg, id) ==
    LET k == FirstIndex(reg, LAMBDA m : m.id = id)
    IN  IF k = 0 THEN None ELSE reg[k]

RemoveNothing(seq, x) == seq
\* list.remove(x): drops the first element equal to x
RemoveFirst(seq, x) ==
    LET k == FirstIndex(seq, LAMBDA m : m = x)
    IN  IF k = 0 THEN seq ELSE SubSeq(seq, 1, k - 1) \o SubSeq(seq, k + 1, Len(seq))

IsDebug(stem) == \E i \in 1..Len(stem) : stem[i] = "_debug"

KeepsIncumbentOnLower(new_quality, old_quality) == new_quality < old_quality
KeepsIncumbentAlways(new_quality, old_quality) == TRUE
\* `if new_quality <= old_quality`: the incumbent stays unless the new record
\* scores strictly higher
KeepsIncumbent(new_quality, old_quality) == new_quality <= old_quality

\* what the loop computes from a file's path alone (lines 1752-1761)
PathFacts(svg_path) ==
    LET parts          == SourceParts(svg_path)
        classification == classify(svg_path)
    IN  [parts          |-> parts,
         classification |-> classification,
         target_dir     |-> processed_dir_for(classification, parts),
         base_stem      |-> normalize_stem(svg_path.stem, classification.standard)]
CorpusFacts == [j \in 1..Len(CorpusPaths) |-> PathFacts(CorpusPaths[j])]

\* What an earlier run over the first file of the corpus left under
\* processed/: its record in registry.json, with the snap points detected
\* then, and its metadata file, which the port editor has since saved with
\* snap points of its own (port_editor.py _save_symbol writes that file only).
EditorPoints == <<[id |-> "p1", by |-> "editor"], [id |-> "p2", by |-> "editor"]>>
EarlierRecord ==
    build_metadata(1, "valve", CorpusFacts[1].classification, CorpusFacts[1].parts,
                   DetectedPoints(MaxSnaps), "h1")
EditedRecord == [EarlierRecord EXCEPT !.snap_points = EditorPoints]
EarlierRegistry ==
    [total_symbols |-> 1, symbols |-> <<EarlierRecord>>,
     hashes |-> ("h1" :> <<EarlierRecord.id>>)]

mainvars == <<pc, dry_run, idx, registry, hash_map, hashes, used_stems,
              processed_count, errors, duplicates, conf_counts,
              svg_files_out, json_files, registry_file, log>>

MainInit ==
    /\ pc = "loop"
    /\ dry_run \in BOOLEAN
    /\ idx = 0
    /\ registry = <<>>
    /\ hash_map = <<>>
    /\ hashes = <<>>
    /\ used_stems = <<>>
    /\ processed_count = 0
    /\ errors = 0
    /\ duplicates = 0
    /\ conf_counts = <<>>
    /\ svg_files_out \in SUBSET PreExisting
    /\ json_files = [out \in svg_files_out |-> EditedRecord]
    /\ registry_file = IF svg_files_out = {} THEN None ELSE EarlierRegistry
    /\ log = <<>>

MainIdle ==
    /\ pc = "off"
    /\ dry_run = FALSE
    /\ idx = 0
    /\ registry = <<>>
    /\ hash_map = <<>>
    /\ hashes = <<>>
    /\ used_stems = <<>>
    /\ processed_count = 0
    /\ errors = 0
    /\ duplicates = 0
    /\ conf_counts = <<>>
    /\ svg_files_out = {}
    /\ json_files = <<>>
    /\ registry_file = None
    /\ log = <<>>

\* one pass of the body of `for svg_path in svg_files` on file j with content c;
\* a value the pass computes once is bound by \E over a singleton
LoopBody(j, c) ==
    IF IsDebug(CorpusPaths[j].stem)
    THEN /\ idx' = j
         /\ UNCHANGED <<pc, dry_run, registry, hash_map, hashes, used_stems,
                        processed_count, errors, duplicates, conf_counts,
                        svg_files_out, json_files, registry_file, log>>
    ELSE
    \E facts \in {CorpusFacts[j]} :
    \E final_stem \in {resolve_stem(facts.base_stem, facts.target_dir,
                                    Get(used_stems, facts.target_dir, {}),
                                    svg_files_out)} :
    LET target_dir   == facts.target_dir
        used_after   == Put(used_stems, target_dir,
                            Get(used_stems, target_dir, {}) \cup {final_stem})
        content_hash == c.hash
    IN
    IF c.raises
    THEN \* except Exception: errors += 1; continue
         /\ idx' = j
         /\ used_stems' = used_after
         /\ errors' = errors + 1
         /\ log' = Append(log, [file |-> j, dir |-> target_dir, stem |-> final_stem,
                                base |-> facts.base_stem,
                                id |-> "", hash |-> "", quality |-> 0,
                                outcome |-> "error"])
         /\ UNCHANGED <<pc, dry_run, registry, hash_map, hashes, processed_count,
                        duplicates, conf_counts, svg_files_out, json_files,
                        registry_file>>
    ELSE
    \E meta \in {build_metadata(j, final_stem, facts.classification, facts.parts,
                                DetectedPoints(c.snaps), content_hash)} :
    \E new_quality \in {metadata_quality(meta)} :
    \E existing_id \in {Get(hash_map, content_hash, "")} :
    \E existing_meta \in {IF content_hash \in DOMAIN hash_map
                          THEN FindById(registry, existing_id) ELSE None} :
    \E old_quality \in {IF existing_meta # None
                        THEN metadata_quality(existing_meta) ELSE 0} :
    LET compare == content_hash \in DOMAIN hash_map /\ existing_meta # None
        entry(outcome) == [file |-> j, dir |-> target_dir, stem |-> final_stem,
                           base |-> facts.base_stem,
                           id |-> meta.id, hash |-> content_hash,
                           quality |-> new_quality, outcome |-> outcome]
    IN
    IF compare /\ KeepsIncumbent(new_quality, old_quality)
    THEN \* [DUP ]: record the id, count the duplicate, continue
         /\ idx' = j
         /\ used_stems' = used_after
         /\ hashes' = Put(hashes, content_hash,
                          Append(Get(hashes, content_hash, <<>>), meta.id))
         /\ duplicates' = duplicates + 1
         /\ log' = Append(log, entry("duplicate"))
         /\ UNCHANGED <<pc, dry_run, registry, hash_map, processed_count, errors,
                        conf_counts, svg_files_out, json_files, registry_file>>
    ELSE
    LET registry1 == IF compare THEN RemoveFirst(registry, existing_meta) ELSE registry
        hashes1   == IF compare
                     THEN Put(hashes, content_hash,
                              Append(Get(hashes, content_hash, <<>>), existing_id))
                     ELSE hashes
        conf      == meta.classification.confidence
        out       == [dir |-> target_dir, stem |-> final_stem]
    IN
    IF c.unwritable /\ ~dry_run
    THEN \* json.dump raises outside the try: the exception leaves main
         /\ idx' = j
         /\ used_stems' = used_after
         /\ hash_map' = Put(hash_map, content_hash, meta.id)
         /\ hashes' = SetDefault(hashes1, content_hash, <<meta.id>>)
         /\ conf_counts' = Put(conf_counts, conf, Get(conf_counts, conf, 0) + 1)
         /\ svg_files_out' = svg_files_out \cup {out}
         /\ json_files' = Put(json_files, out, Truncated)
         /\ registry' = registry1
         /\ pc' = "aborted"
         /\ UNCHANGED <<dry_run, processed_count, errors, duplicates,
                        registry_file, log>>
    ELSE /\ idx' = j
         /\ used_stems' = used_after
         /\ hash_map' = Put(hash_map, content_hash, meta.id)
         /\ hashes' = SetDefault(hashes1, content_hash, <<meta.id>>)
         /\ conf_counts' = Put(conf_counts, conf, Get(conf_counts, conf, 0) + 1)
         /\ svg_files_out' = IF dry_run THEN svg_files_out ELSE svg_files_out \cup {out}
         /\ json_files' = IF dry_run THEN json_files ELSE Put(json_files, out, meta)
         /\ registry' = Append(registry1, meta)
         /\ processed_count' = processed_count + 1
         /\ log' = Append(log, entry(IF compare THEN "replaces" ELSE "new"))
         /\ UNCHANGED <<pc, dry_run, errors, duplicates, registry_file>>

ProcessFile ==
    /\ pc = "loop"
    /\ \E j \in (idx + 1)..Len(CorpusPaths), c \in Contents : LoopBody(j, c)
    /\ UNCHANGED clvars
    /\ UNCHANGED spvars
    /\ UNCHANGED pdvars
    /\ UNCHANGED hsvars
    /\ UNCHANGED bmvars
    /\ UNCHANGED slvars
    /\ UNCHANGED ptvars
    /\ UNCHANGED mgvars

\* the loop is over: write registry.json (unless dry-run), print the summary
Finish ==
    /\ pc = "loop"
    /\ pc' = "done"
    /\ registry_file' =
          IF dry_run THEN registry_file
          ELSE [total_symbols |-> Len(registry), symbols |-> registry,
                hashes |-> hashes]
    /\ UNCHANGED <<dry_run, idx, registry, hash_map, hashes, used_stems,
                   processed_count, errors, duplicates, conf_counts,
                   svg_files_out, json_files, log>>
    /\ UNCHANGED clvars
    /\ UNCHANGED spvars
    /\ UNCHANGED pdvars
    /\ UNCHANGED hsvars
    /\ UNCHANGED bmvars
    /\ UNCHANGED slvars
    /\ UNCHANGED ptvars
    /\ UNCHANGED mgvars

(***************************************************************************)
(* The classification run: a path is drawn, classify is applied to it      *)
(***************************************************************************)
MaxStemLen == 3
StemVocab == {"valve", "Valve", "instrument", "discrete", " ", "_",
              "Symbols Sheet 1", "pip", "isa"}
\* a stem: up to MaxStemLen tokens, then possibly a standard tag
ClassifyStems ==
    {b \o t : b \in SeqsUpTo(StemVocab, MaxStemLen),
              t \in {<<>>, <<"(ISO 10628-2)">>}} \ {<<>>}
DirLayouts ==
    { <<>>, <<"misc">>, <<"valves">>, <<"iso_instruments_svg">>,
      <<"autocad-parser">>, <<"autocad-parser", "isa_valves_svg">>,
      <<"autocad-parser", "misc">>,
      <<"pid-symbols-generator">>, <<"pid-symbols-generator", "downloaded">>,
      <<"pid-symbols-generator", "downloaded", "valves">>,
      <<"pid-symbols-generator", "generated">> }
ClassifyPaths ==
    [rel : {"inside"}, anc : {"", "iso"}, dirs : DirLayouts, stem : ClassifyStems]
    \cup [rel : {"outside"}, anc : {"", "iso"},
          dirs : {<<>>, <<"valves">>, <<"autocad-parser", "isa_valves_svg">>},
          stem : ClassifyStems]
    \cup [rel : {"root"}, anc : {"", "iso"}, dirs : {<<>>}, stem : ClassifyStems]

ClassifyInit == cl_path \in ClassifyPaths /\ cl_result = Pending
ClassifyIdle == cl_path = None /\ cl_result = Pending

DoClassify ==
    /\ cl_result = Pending
    /\ cl_path # None
    /\ cl_result' = classify(cl_path)
    /\ UNCHANGED cl_path
    /\ UNCHANGED mainvars
    /\ UNCHANGED spvars
    /\ UNCHANGED pdvars
    /\ UNCHANGED hsvars
    /\ UNCHANGED bmvars
    /\ UNCHANGED slvars
    /\ UNCHANGED ptvars
    /\ UNCHANGED mgvars

(***************************************************************************)
(* snap_points.py: the geometry of a parsed SVG document                   *)
(*                                                                         *)
(* A document is [parse_error, viewBox, elems]; an element is              *)
(* [tag, id, class, attrs, bad, d]: attrs holds the attributes whose text  *)
(* is a number, bad names the attributes whose text float() rejects, d is  *)
(* the path data as a sequence of [cmd, nums].  A point is <<x, y>> and    *)
(* <<>> stands for Python's None where a point is expected.  Coordinates   *)
(* of the documents are even integers, so halving is exact.                *)
(***************************************************************************)
VALVE_CATS ==
    {"valve", "check_valve", "relief_valve", "control_valve", "regulator", "safety"}
OPEN_END_CATS ==
    VALVE_CATS \cup {"pump", "compressor", "pipe", "fitting", "connection",
                     "piping", "line_type"}
BUBBLE_CATS == {"instrument_bubble", "instrument", "annotation"}
ACTUATOR_CATS == {"actuator", "fail_position"}

\* elem.get(name, 0) read by float()
Num(e, name) == IF name \in DOMAIN e.attrs THEN e.attrs[name] ELSE 0
\* float() raises ValueError on one of the attributes
BadFloat(e, names) == names \cap e.bad # {}

Abs(n) == IF n < 0 THEN -n ELSE n
MinOf(S) == CHOOSE m \in S : \A n \in S : m <= n
MaxOf(S) == CHOOSE m \in S : \A n \in S : n <= m
Half(n) == n \div 2

\* tuple order on points
PointLess(p, q) == p[1] < q[1] \/ (p[1] = q[1] /\ p[2] < q[2])
RECURSIVE SortedPoints(_)
SortedPoints(S) ==
    IF S = {} THEN <<>>
    ELSE LET m == CHOOSE p \in S : \A q \in S : q = p \/ PointLess(p, q)
         IN  <<m>> \o SortedPoints(S \ {m})

Point(id, x, y) == [id |-> id, x |-> x, y |-> y]

\* the (cmd, args) pairs re.findall yields, one step per coordinate group:
\* only M, L, H, V and their relative forms are matched
PathSteps(c) ==
    LET rel == c.cmd \in {"m", "l", "h", "v"}
        n   == Len(c.nums)
    IN  CASE c.cmd \in {"M", "m"} ->
                IF n >= 2
                THEN <<[cu |-> "M", rel |-> rel, x |-> c.nums[1], y |-> c.nums[2]]>>
                ELSE <<>>
          [] c.cmd \in {"L", "l"} ->
                [i \in 1..(n \div 2) |->
                    [cu |-> "L", rel |-> rel, x |-> c.nums[2 * i - 1], y |-> c.nums[2 * i]]]
          [] c.cmd \in {"H", "h"} ->
                [i \in 1..n |-> [cu |-> "H", rel |-> rel, x |-> c.nums[i], y |-> 0]]
          [] c.cmd \in {"V", "v"} ->
                [i \in 1..n |-> [cu |-> "V", rel |-> rel, x |-> 0, y |-> c.nums[i]]]
          [] OTHER -> <<>>

RECURSIVE AllSteps(_)
AllSteps(d) == IF d = <<>> THEN <<>> ELSE PathSteps(Head(d)) \o AllSteps(Tail(d))

\* the cursor after a step
Move(cur, st) ==
    CASE st.cu \in {"M", "L"} ->
            <<(IF st.rel THEN cur[1] ELSE 0) + st.x, (IF st.rel THEN cur[2] ELSE 0) + st.y>>
      [] st.cu = "H" -> <<(IF st.rel THEN cur[1] ELSE 0) + st.x, cur[2]>>
      [] st.cu = "V" -> <<cur[1], (IF st.rel THEN cur[2] ELSE 0) + st.y>>

\* _path_open_endpoints: the loop over the commands of one subpath
RECURSIVE WalkEnds(_, _, _, _)
WalkEnds(steps, cur, start, end) ==
    IF steps = <<>> THEN [start |-> start, end |-> end]
    ELSE LET st  == Head(steps)
             nxt == Move(cur, st)
         IN  WalkEnds(Tail(steps), nxt,
                      IF st.cu = "M" /\ start = <<>> THEN nxt ELSE start,
                      nxt)

\* re.split(r'(?=[Mm])', d): the chunks that begin with a move command
Subpaths(d) ==
    LET moves == {i \in DOMAIN d : d[i].cmd \in {"M", "m"}}
        last(i) == IF \E j \in moves : j > i
                   THEN MinOf({j \in moves : j > i}) - 1
                   ELSE Len(d)
        RECURSIVE from(_)
        from(S) == IF S = {} THEN <<>>
                   ELSE LET i == MinOf(S)
                        IN  <<SubSeq(d, i, last(i))>> \o from(S \ {i})
    IN  from(moves)

path_open_endpoints(d) ==
    LET ends(sub) ==
            IF \E i \in DOMAIN sub : sub[i].cmd \in {"Z", "z"} THEN <<>>
            ELSE IF ~\E i \in DOMAIN sub : sub[i].cmd \in {"L", "l", "H", "h", "V", "v"}
            THEN <<>>
            ELSE LET w == WalkEnds(AllSteps(sub), <<0, 0>>, <<>>, <<>>)
                 IN  (IF w.start # <<>> THEN <<w.start>> ELSE <<>>)
                     \o (IF w.end # <<>> /\ w.end # w.start THEN <<w.end>> ELSE <<>>)
        subs == Subpaths(d)
    IN  Flatten([k \in DOMAIN subs |-> ends(subs[k])])

\* _straight_segments: the loop over the commands of one path element
RECURSIVE WalkSegs(_, _)
WalkSegs(steps, cur) ==
    IF steps = <<>> THEN <<>>
    ELSE LET st  == Head(steps)
             nxt == Move(cur, st)
         IN  (IF st.cu = "M" THEN <<>> ELSE << <<cur, nxt>> >>)
             \o WalkSegs(Tail(steps), nxt)

\* the segments of one path element: the cursor starts at the origin
path_segments(d) == WalkSegs(AllSteps(d), <<0, 0>>)

LineEnds(e) ==
    IF BadFloat(e, {"x1", "y1", "x2", "y2"}) THEN <<>>
    ELSE << <<Num(e, "x1"), Num(e, "y1")>>, <<Num(e, "x2"), Num(e, "y2")>> >>

straight_segments(elems) ==
    Flatten([k \in DOMAIN elems |->
        CASE elems[k].tag = "line" ->
                IF LineEnds(elems[k]) = <<>> THEN <<>> ELSE <<LineEnds(elems[k])>>
          [] elems[k].tag = "path" -> path_segments(elems[k].d)
          [] OTHER -> <<>>])

\* _on_segment with tol = 1.5, in doubled and squared units
on_segment(px, py, s, e) ==
    LET x1 == s[1]
        y1 == s[2]
        x2 == e[1]
        y2 == e[2]
        lox == IF x1 < x2 THEN x1 ELSE x2
        hix == IF x1 < x2 THEN x2 ELSE x1
        loy == IF y1 < y2 THEN y1 ELSE y2
        hiy == IF y1 < y2 THEN y2 ELSE y1
        dx == x2 - x1
        dy == y2 - y1
        len_sq == dx * dx + dy * dy
        cross == dy * px - dx * py + x2 * y1 - y2 * x1
    IN  IF ~(/\ 2 * lox - 3 <= 2 * px /\ 2 * px <= 2 * hix + 3
             /\ 2 * loy - 3 <= 2 * py /\ 2 * py <= 2 * hiy + 3)
        THEN FALSE
        ELSE IF len_sq = 0
        THEN 2 * Abs(px - x1) <= 3 /\ 2 * Abs(py - y1) <= 3
        ELSE 4 * cross * cross <= 9 * len_sq

RECURSIVE PickIdx(_, _)
PickIdx(seq, S) ==
    IF S = {} THEN <<>>
    ELSE LET i == MinOf(S) IN <<seq[i]>> \o PickIdx(seq, S \ {i})

HorizontalFlipped(x_span, y_span) == x_span <= y_span
\* horizontal = x_span >= y_span
Horizontal(x_span, y_span) == x_span >= y_span

\* _label_floating
label_floating(floating, category) ==
    IF floating = <<>> THEN <<>>
    ELSE IF category \in VALVE_CATS \cup OPEN_END_CATS
    THEN LET xs == {floating[i][1] : i \in DOMAIN floating}
             ys == {floating[i][2] : i \in DOMAIN floating}
             horizontal == Horizontal(MaxOf(xs) - MinOf(xs), MaxOf(ys) - MinOf(ys))
             key(p) == IF horizontal THEN p[1] ELSE p[2]
             keys == IF horizontal THEN xs ELSE ys
             \* sorted() is stable: the first of the smallest, the last of the largest
             primary_lo ==
                 floating[MinOf({i \in DOMAIN floating : key(floating[i]) = MinOf(keys)})]
             primary_hi ==
                 floating[MaxOf({i \in DOMAIN floating : key(floating[i]) = MaxOf(keys)})]
             extras == SortedPoints({floating[i] : i \in DOMAIN floating}
                                    \ {primary_lo, primary_hi})
         IN  <<Point("in", primary_lo[1], primary_lo[2]),
               Point("out", primary_hi[1], primary_hi[2])>>
             \o [i \in DOMAIN extras |->
                    Point("p" \o ToString(i), extras[i][1], extras[i][2])]
    ELSE LET pts == SortedPoints({floating[i] : i \in DOMAIN floating})
         IN  IF Len(pts) = 2
             THEN IF Abs(pts[2][1] - pts[1][1]) >= Abs(pts[2][2] - pts[1][2])
                  THEN <<Point("in", pts[1][1], pts[1][2]),
                         Point("out", pts[2][1], pts[2][2])>>
                  ELSE <<Point("signal", pts[1][1], pts[1][2]),
                         Point("process", pts[2][1], pts[2][2])>>
             ELSE [i \in DOMAIN pts |-> Point("p" \o ToString(i), pts[i][1], pts[i][2])]

\* Strategy 1: elements whose id or class holds a port keyword
MARKER_KEYWORDS == {"port", "conn", "inlet", "outlet", "signal", "terminal", "snap"}
IsMarker(e) ==
    \E kw \in MARKER_KEYWORDS :
        Contains(LowerSeq(e.id), <<kw>>) \/ Contains(LowerSeq(e.class), <<kw>>)
\* the attributes float() is applied to for a marker
MarkerReads(e) ==
    CASE e.tag \in {"circle", "ellipse"} -> {"cx", "cy"}
      [] e.tag = "rect" -> {"x", "width", "y", "height"}
      [] e.tag = "line" -> {"x1", "x2", "y1", "y2"}
      [] OTHER -> {}
MarkerCentre(e) ==
    CASE e.tag \in {"circle", "ellipse"} -> <<Num(e, "cx"), Num(e, "cy")>>
      [] e.tag = "rect" -> <<Num(e, "x") + Half(Num(e, "width")),
                             Num(e, "y") + Half(Num(e, "height"))>>
      [] e.tag = "line" -> <<Half(Num(e, "x1") + Num(e, "x2")),
                             Half(Num(e, "y1") + Num(e, "y2"))>>
      [] OTHER -> <<>>
id_raises(elems) ==
    \E k \in DOMAIN elems : IsMarker(elems[k]) /\ BadFloat(elems[k], MarkerReads(elems[k]))
RECURSIVE id_points(_, _)
id_points(elems, id_pts) ==
    IF elems = <<>> THEN id_pts
    ELSE LET e   == Head(elems)
             eid == Concat(LowerSeq(e.id))
             c   == MarkerCentre(e)
         IN  id_points(Tail(elems),
                 IF IsMarker(e) /\ c # <<>>
                 THEN Append(id_pts,
                             Point(IF eid # "" THEN eid
                                   ELSE "p" \o ToString(Len(id_pts) + 1), c[1], c[2]))
                 ELSE id_pts)

\* Strategy 2: endpoints met once that lie on no other segment
all_eps(elems) ==
    Flatten([k \in DOMAIN elems |->
        CASE elems[k].tag = "line" -> LineEnds(elems[k])
          [] elems[k].tag = "path" -> path_open_endpoints(elems[k].d)
          [] OTHER -> <<>>])
floating_endpoints(elems, segs) ==
    LET eps == all_eps(elems)
        count(pt) == Cardinality({i \in DOMAIN eps : eps[i] = pt})
        crossed(pt) ==
            \E k \in DOMAIN segs :
                /\ segs[k][1] # pt
                /\ segs[k][2] # pt
                /\ on_segment(pt[1], pt[2], segs[k][1], segs[k][2])
    IN  PickIdx(eps, {i \in DOMAIN eps :
                        /\ \A j \in 1..(i - 1) : eps[j] # eps[i]
                        /\ count(eps[i]) = 1
                        /\ ~crossed(eps[i])})

\* Strategy 3: the cardinal points of the largest circle or ellipse
bubbles_of(elems) ==
    Flatten([k \in DOMAIN elems |->
        LET e == elems[k]
        IN  CASE e.tag = "circle" ->
                    IF BadFloat(e, {"r", "cx", "cy"}) THEN <<>>
                    ELSE << <<Num(e, "r"), Num(e, "r"), Num(e, "cx"), Num(e, "cy")>> >>
              [] e.tag = "ellipse" ->
                    IF BadFloat(e, {"rx", "ry", "cx", "cy"}) THEN <<>>
                    ELSE << <<Num(e, "rx"), Num(e, "ry"), Num(e, "cx"), Num(e, "cy")>> >>
              [] OTHER -> <<>>])
bubble_points(elems) ==
    LET bubbles == bubbles_of(elems)
    IN  IF bubbles = <<>> THEN <<>>
        ELSE LET area(b) == b[1] * b[2]
                 b == bubbles[MinOf({i \in DOMAIN bubbles :
                         \A j \in DOMAIN bubbles : area(bubbles[j]) <= area(bubbles[i])})]
             IN  <<Point("north", b[3], b[4] - b[2]),
                   Point("south", b[3], b[4] + b[2]),
                   Point("east", b[3] + b[1], b[4]),
                   Point("west", b[3] - b[1], b[4])>>

\* Strategy 4: the extremes of the bounding box
on_vb(vb, p) ==
    IF vb = <<>> THEN FALSE
    ELSE \/ p[1] = vb[1] \/ p[1] = vb[1] + vb[3]
         \/ p[2] = vb[2] \/ p[2] = vb[2] + vb[4]
\* the extreme points of the circles and ellipses
round_pts(elems) ==
    Flatten([k \in DOMAIN elems |->
        LET e == elems[k]
        IN  CASE e.tag = "circle" ->
                    IF BadFloat(e, {"cx", "cy", "r"}) THEN <<>>
                    ELSE << <<Num(e, "cx") - Num(e, "r"), Num(e, "cy")>>,
                            <<Num(e, "cx") + Num(e, "r"), Num(e, "cy")>>,
                            <<Num(e, "cx"), Num(e, "cy") - Num(e, "r")>>,
                            <<Num(e, "cx"), Num(e, "cy") + Num(e, "r")>> >>
              [] e.tag = "ellipse" ->
                    IF BadFloat(e, {"cx", "cy", "rx", "ry"}) THEN <<>>
                    ELSE << <<Num(e, "cx") - Num(e, "rx"), Num(e, "cy")>>,
                            <<Num(e, "cx") + Num(e, "rx"), Num(e, "cy")>>,
                            <<Num(e, "cx"), Num(e, "cy") - Num(e, "ry")>>,
                            <<Num(e, "cx"), Num(e, "cy") + Num(e, "ry")>> >>
              [] OTHER -> <<>>])
\* all_pts: the ends of the segments not excluded, then the round extremes
bbox_all_pts(elems, segs, vb) ==
    Flatten([k \in DOMAIN segs |->
                IF on_vb(vb, segs[k][1]) /\ on_vb(vb, segs[k][2])
                THEN <<>> ELSE segs[k]])
    \o round_pts(elems)
\* the points returned for the bounding box of all_pts
bbox_label(all_pts, category) ==
    IF all_pts = <<>> THEN <<>>
    ELSE LET xs == {all_pts[i][1] : i \in DOMAIN all_pts}
             ys == {all_pts[i][2] : i \in DOMAIN all_pts}
             x_min == MinOf(xs)
             x_max == MaxOf(xs)
             y_min == MinOf(ys)
             y_max == MaxOf(ys)
             cx_g == Half(x_min + x_max)
             cy_g == Half(y_min + y_max)
         IN  IF category \in VALVE_CATS
             THEN <<Point("in", x_min, cy_g), Point("out", x_max, cy_g)>>
             ELSE IF category \in ACTUATOR_CATS
             THEN <<Point("signal", cx_g, y_min), Point("process", cx_g, y_max)>>
             ELSE <<Point("north", cx_g, y_min), Point("south", cx_g, y_max),
                    Point("east", x_max, cy_g), Point("west", x_min, cy_g)>>
bbox_points(elems, segs, vb, category) ==
    bbox_label(bbox_all_pts(elems, segs, vb), category)

Return(v) == [ret |-> v]

OpenEndAppliesAlways(category) == TRUE
\* "if category in _OPEN_END_CATS"
OpenEndApplies(category) == category \in OPEN_END_CATS

detect_snap_points(doc, category) ==
    IF doc.parse_error THEN Return(<<>>)
    ELSE IF doc.viewBox.bad THEN Raise("ValueError")
    ELSE IF id_raises(doc.elems) THEN Raise("ValueError")
    ELSE
    LET vb == IF Len(doc.viewBox.nums) >= 4 THEN doc.viewBox.nums ELSE <<>>
        id_pts == id_points(doc.elems, <<>>)
        segs == straight_segments(doc.elems)
        floating == IF OpenEndApplies(category)
                    THEN floating_endpoints(doc.elems, segs) ELSE <<>>
        bubbles == IF category \in BUBBLE_CATS THEN bubble_points(doc.elems) ELSE <<>>
    IN  IF id_pts # <<>> THEN Return(id_pts)
        ELSE IF floating # <<>> THEN Return(label_floating(floating, category))
        ELSE IF bubbles # <<>> THEN Return(bubbles)
        ELSE Return(bbox_points(doc.elems, segs, vb, category))

(***************************************************************************)
(* The detection run: a document and a category are drawn,                 *)
(* detect_snap_points is applied to them                                   *)
(***************************************************************************)
Elem(tag, id, class, attrs, bad, d) ==
    [tag |-> tag, id |-> id, class |-> class, attrs |-> attrs, bad |-> bad, d |-> d]
Cmd(c, nums) == [cmd |-> c, nums |-> nums]

\* the drawing elements documents are made of, on a 40 x 20 canvas
Catalogue ==
    { \* the two connection stubs of a valve
      Elem("line", <<>>, <<>>, [x1 |-> 0, y1 |-> 10, x2 |-> 10, y2 |-> 10], {}, <<>>),
      Elem("line", <<>>, <<>>, [x1 |-> 30, y1 |-> 10, x2 |-> 40, y2 |-> 10], {}, <<>>),
      \* a closed body between them
      Elem("path", <<"body">>, <<>>, <<>>, {},
           <<Cmd("M", <<10, 4>>), Cmd("V", <<16>>), Cmd("L", <<30, 4>>),
             Cmd("V", <<16>>), Cmd("Z", <<>>)>>),
      \* an open stub drawn with a relative command
      Elem("path", <<>>, <<>>, <<>>, {}, <<Cmd("M", <<20, 0>>), Cmd("v", <<4>>)>>),
      \* a border line on the top edge of the canvas
      Elem("line", <<>>, <<>>, [x1 |-> 0, y1 |-> 0, x2 |-> 40, y2 |-> 0], {}, <<>>),
      Elem("circle", <<>>, <<>>, [cx |-> 20, cy |-> 10, r |-> 6], {}, <<>>),
      Elem("ellipse", <<>>, <<>>, [cx |-> 20, cy |-> 10, rx |-> 8, ry |-> 4], {}, <<>>),
      \* markers: a port circle, a snap rectangle without id, a group
      Elem("circle", <<"port", "_in">>, <<>>, [cx |-> 0, cy |-> 10, r |-> 2], {}, <<>>),
      Elem("rect", <<>>, <<"snap">>, [x |-> 36, y |-> 8, width |-> 4, height |-> 4], {}, <<>>),
      Elem("g", <<"conn", "_group">>, <<>>, <<>>, {}, <<>>),
      \* a line whose x1 is not a number, plain and as a marker
      Elem("line", <<>>, <<>>, [y1 |-> 10, x2 |-> 10, y2 |-> 10], {"x1"}, <<>>),
      Elem("line", <<"outlet">>, <<>>, [y1 |-> 10, x2 |-> 10, y2 |-> 10], {"x1"}, <<>>),
      \* a stub drawn as a path and named as an inlet
      Elem("path", <<"inlet">>, <<>>, <<>>, {}, <<Cmd("M", <<0, 10>>), Cmd("h", <<10>>)>>),
      \* a line through the whole symbol, from (0,10) to (40,10)
      Elem("line", <<>>, <<>>, [x1 |-> 0, y1 |-> 10, x2 |-> 40, y2 |-> 10], {}, <<>>),
      \* an open polyline with a corner at (20,4)
      Elem("path", <<>>, <<>>, <<>>, {},
           <<Cmd("M", <<10, 10>>), Cmd("L", <<20, 4, 30, 10>>)>>),
      \* a line across the canvas from its top edge to its bottom edge
      Elem("line", <<>>, <<>>, [x1 |-> 20, y1 |-> 0, x2 |-> 20, y2 |-> 20], {}, <<>>) }

MaxElems == 2
ViewBoxes ==
    { [nums |-> <<>>, bad |-> FALSE],              \* no viewBox
      [nums |-> <<0, 0, 40, 20>>, bad |-> FALSE],
      [nums |-> <<0, 0>>, bad |-> FALSE],          \* fewer than four numbers
      [nums |-> <<>>, bad |-> TRUE] }              \* a part float() rejects
Documents ==
    [parse_error : {FALSE}, viewBox : ViewBoxes, elems : SeqsUpTo(Catalogue, MaxElems)]
    \cup {[parse_error |-> TRUE, viewBox |-> [nums |-> <<>>, bad |-> FALSE],
           elems |-> <<>>]}
SnapCategories == {"valve", "pump", "instrument", "actuator", "unknown"}

SnapInit == sp_doc \in Documents /\ sp_category \in SnapCategories /\ sp_result = Pending
SnapIdle == sp_doc = None /\ sp_category = "" /\ sp_result = Pending

DoDetect ==
    /\ sp_result = Pending
    /\ sp_doc # None
    /\ sp_result' = detect_snap_points(sp_doc, sp_category)
    /\ UNCHANGED <<sp_doc, sp_category>>
    /\ UNCHANGED mainvars
    /\ UNCHANGED clvars
    /\ UNCHANGED pdvars
    /\ UNCHANGED hsvars
    /\ UNCHANGED bmvars
    /\ UNCHANGED slvars
    /\ UNCHANGED ptvars
    /\ UNCHANGED mgvars

(***************************************************************************)
(* The path-data run: a d attribute is drawn and handed to                 *)
(* _path_open_endpoints and to the path branch of _straight_segments       *)
(***************************************************************************)
\* the commands path data is made of; the curve ends at (20,10)
PathCmds ==
    { Cmd("M", <<0, 0>>), Cmd("M", <<20, 10>>), Cmd("m", <<10, 10>>),
      Cmd("L", <<10, 0>>), Cmd("l", <<10, 0>>), Cmd("h", <<10>>), Cmd("v", <<10>>),
      Cmd("C", <<0, 4, 6, 10, 20, 10>>), Cmd("Z", <<>>) }
MaxCmds == 4
\* path data begins with a move command
PathData ==
    {d \in SeqsUpTo(PathCmds, MaxCmds) : d = <<>> \/ Head(d).cmd \in {"M", "m"}}

PathInit == pd_d \in PathData /\ pd_ends = Pending /\ pd_segs = Pending
PathIdle == pd_d = <<>> /\ pd_ends = Pending /\ pd_segs = Pending

DoPath ==
    /\ pd_ends = Pending
    /\ pd_ends' = Return(path_open_endpoints(pd_d))
    /\ pd_segs' = Return(path_segments(pd_d))
    /\ UNCHANGED pd_d
    /\ UNCHANGED mainvars
    /\ UNCHANGED clvars
    /\ UNCHANGED spvars
    /\ UNCHANGED hsvars
    /\ UNCHANGED bmvars
    /\ UNCHANGED slvars
    /\ UNCHANGED ptvars
    /\ UNCHANGED mgvars

(***************************************************************************)
(* Content identity: _canonicalize_svg_ids and the two _svg_sha256         *)
(***************************************************************************)
\* The text of a document is a sequence of tokens: an id attribute in double
\* or in single quotes, a url(#...) reference, an href="#..." reference,
\* and any other text.
IdDef(q, name) == [tok |-> "id", q |-> q, name |-> name]
UrlRef(name) == [tok |-> "url", q |-> "none", name |-> name]
HrefRef(name) == [tok |-> "href", q |-> "dq", name |-> name]
OtherText == [tok |-> "text", q |-> "none", name |-> "g"]

\* f"_cid{i}" for the i-th distinct identifier, i counted from 0
Cid(i) == <<"_cid0", "_cid1", "_cid2", "_cid3">>[i + 1]

\* id_re = r'\bid="([^"]+)"' sees only the double-quoted form
IdReMatches(t) == t.tok = "id" /\ t.q = "dq"

\* list(dict.fromkeys(...)): the distinct identifiers in document order
RECURSIVE DistinctIds(_, _)
DistinctIds(content, seen) ==
    IF content = <<>> THEN seen
    ELSE LET t == Head(content)
         IN  IF IdReMatches(t) /\ ~(\E i \in 1..Len(seen) : seen[i] = t.name)
             THEN DistinctIds(Tail(content), Append(seen, t.name))
             ELSE DistinctIds(Tail(content), seen)

\* mapping.get(old, old) with mapping = {old: f"_cid{i}"}
MappingGet(ids, old) ==
    IF \E i \in 1..Len(ids) : ids[i] = old
    THEN Cid((CHOOSE i \in 1..Len(ids) : ids[i] = old) - 1)
    ELSE old

canonicalize_svg_ids(content) ==
    LET ids == DistinctIds(content, <<>>)
    IN  IF ids = <<>> THEN content
        ELSE [i \in 1..Len(content) |->
                LET t == content[i]
                IN  IF IdReMatches(t) \/ t.tok \in {"url", "href"}
                    THEN [t EXCEPT !.name = MappingGet(ids, t.name)]
                    ELSE t]

\* SHA-256 is taken to be injective: the digest stands for the text digested
sha256(content) == [sha256 |-> content]

\* main.py's _svg_sha256, the one the pipeline calls
svg_sha256(content) == sha256(content)
\* utils.py's _svg_sha256
utils_svg_sha256(content) == sha256(canonicalize_svg_ids(content))

IdNames == {"a", "b", "c"}
HashTokens ==
    {IdDef(q, n) : q \in {"dq", "sq"}, n \in IdNames}
        \cup {UrlRef(n) : n \in IdNames} \cup {HrefRef(n) : n \in IdNames}
        \cup {OtherText}
MaxTokens == 3
HashDocs == SeqsUpTo(HashTokens, MaxTokens)

\* a one-to-one renaming of the identifiers, applied to every definition and
\* every reference
Renamings == {f \in [IdNames -> IdNames] : \A n \in IdNames : \E m \in IdNames : f[m] = n}
Rename(content, f) ==
    [i \in 1..Len(content) |->
        IF content[i].tok = "text" THEN content[i]
        ELSE [content[i] EXCEPT !.name = f[content[i].name]]]

HashInit ==
    /\ hs_a \in HashDocs
    /\ hs_b \in {Rename(hs_a, f) : f \in Renamings}
    /\ hs_main = Pending
    /\ hs_utils = Pending
HashIdle == hs_a = <<>> /\ hs_b = <<>> /\ hs_main = Pending /\ hs_utils = Pending

DoHash ==
    /\ hs_main = Pending
    /\ hs_main' = Return(<<svg_sha256(hs_a), svg_sha256(hs_b)>>)
    /\ hs_utils' = Return(<<utils_svg_sha256(hs_a), utils_svg_sha256(hs_b)>>)
    /\ UNCHANGED <<hs_a, hs_b>>
    /\ UNCHANGED mainvars
    /\ UNCHANGED clvars
    /\ UNCHANGED spvars
    /\ UNCHANGED pdvars
    /\ UNCHANGED bmvars
    /\ UNCHANGED slvars
    /\ UNCHANGED ptvars
    /\ UNCHANGED mgvars

(***************************************************************************)
(* The record run: the try block of main (lines 1755-1763) on one file of  *)
(* a fresh corpus                                                          *)
(***************************************************************************)
BuildDirs ==
    { <<"misc">>, <<"autocad-parser", "isa_valves_svg">>,
      <<"pid-symbols-generator", "downloaded", "pipes">>,
      <<"pid-symbols-generator", "downloaded", "valves">>,
      <<"pid-symbols-generator", "generated">> }
BuildVocab == {"valve", "pipe", "pip", "_", "(ISO 10628-2)"}
MaxBuildStemLen == 2
BuildPaths ==
    [rel : {"inside"}, anc : {""}, dirs : BuildDirs,
     stem : SeqsUpTo(BuildVocab, MaxBuildStemLen) \ {<<>>}]

BuildInit == bm_path \in BuildPaths /\ bm_meta = Pending
BuildIdle == bm_path = None /\ bm_meta = Pending

DoBuild ==
    /\ bm_meta = Pending
    /\ bm_path # None
    /\ \E classification \in {classify(bm_path)} :
          IF IsRaise(classification)
          THEN bm_meta' = classification
          ELSE \E parts \in {SourceParts(bm_path)} :
               \E target_dir \in {processed_dir_for(classification, parts)} :
               \E base_stem \in {normalize_stem(bm_path.stem, classification.standard)} :
               \E final_stem \in {resolve_stem(base_stem, target_dir, {}, {})} :
                  bm_meta' = Return(build_metadata(bm_path, final_stem, classification,
                                                   parts, <<>>, "h1"))
    /\ UNCHANGED bm_path
    /\ UNCHANGED mainvars
    /\ UNCHANGED clvars
    /\ UNCHANGED spvars
    /\ UNCHANGED pdvars
    /\ UNCHANGED hsvars
    /\ UNCHANGED slvars
    /\ UNCHANGED ptvars
    /\ UNCHANGED mgvars

(***************************************************************************)
(* The source-slug run: _source_slug_from_path applied to a path           *)
(***************************************************************************)
\* path components; the last is the file name path.svg
SlugComponents ==
    { <<"input">>, <<"autocad-parser">>, <<"pid-symbols-generator">>,
      <<"downloaded">>, <<"misc">>, <<"random">>, <<"path", ".svg">>, <<"-">> }
MaxParts == 4
SlugPaths == SeqsUpTo(SlugComponents, MaxParts) \ {<<>>}

SlugInit == sl_path \in SlugPaths /\ sl_result = Pending
SlugIdle == sl_path = <<>> /\ sl_result = Pending

DoSlug ==
    /\ sl_result = Pending
    /\ sl_path # <<>>
    /\ sl_result' = Return(source_slug_from_path(sl_path))
    /\ UNCHANGED sl_path
    /\ UNCHANGED mainvars
    /\ UNCHANGED clvars
    /\ UNCHANGED spvars
    /\ UNCHANGED pdvars
    /\ UNCHANGED hsvars
    /\ UNCHANGED bmvars
    /\ UNCHANGED ptvars
    /\ UNCHANGED mgvars

(***************************************************************************)
(* paths.py: the Paths class and the module-level names                    *)
(***************************************************************************)
NoDir == "<None>"
RepoRoot == "/repo"

\* the directories a caller may pass: an absolute path, a symbolic link to
\* /tmp/real, and a path relative to the working directory
DirArgs == {"/a", "/tmp/link", "rel"}
\* Path(x).resolve()
Resolve(x) ==
    CASE x = "/tmp/link" -> "/tmp/real"
      [] x = "rel"       -> "/cwd/rel"
      [] OTHER           -> x

ConfigureDirClearing(current, arg) == IF arg # NoDir THEN Resolve(arg) ELSE NoDir
\* if arg is not None: cls._dir = Path(arg).resolve()
ConfigureDir(current, arg) == IF arg # NoDir THEN Resolve(arg) ELSE current

\* the class properties
Paths_REPO_ROOT == RepoRoot
Paths_INPUT_DIR ==
    IF pt_input_dir # NoDir THEN pt_input_dir ELSE RepoRoot \o "/input"
Paths_PROCESSED_DIR ==
    IF pt_processed_dir # NoDir THEN pt_processed_dir ELSE RepoRoot \o "/processed"

MaxCalls == 3

\* the state once the module is imported: the class attributes at their
\* defaults and the module-level names bound to what the properties return
PathsInit ==
    /\ pt_input_dir = NoDir
    /\ pt_processed_dir = NoDir
    /\ pt_configured = FALSE
    /\ pt_module = [REPO_ROOT |-> RepoRoot, INPUT_DIR |-> RepoRoot \o "/input",
                    PROCESSED_DIR |-> RepoRoot \o "/processed"]
    /\ pt_calls = <<>>
PathsIdle == PathsInit

Configure ==
    /\ Len(pt_calls) < MaxCalls
    /\ \E input_dir \in DirArgs \cup {NoDir}, output_dir \in DirArgs \cup {NoDir} :
          /\ pt_input_dir' = ConfigureDir(pt_input_dir, input_dir)
          /\ pt_processed_dir' = ConfigureDir(pt_processed_dir, output_dir)
          /\ pt_calls' = Append(pt_calls, [call |-> "configure", input_dir |-> input_dir,
                                           output_dir |-> output_dir])
    /\ pt_configured' = TRUE
    /\ UNCHANGED pt_module
    /\ UNCHANGED mainvars
    /\ UNCHANGED clvars
    /\ UNCHANGED spvars
    /\ UNCHANGED pdvars
    /\ UNCHANGED hsvars
    /\ UNCHANGED bmvars
    /\ UNCHANGED slvars
    /\ UNCHANGED mgvars

Reset ==
    /\ Len(pt_calls) < MaxCalls
    /\ pt_input_dir' = NoDir
    /\ pt_processed_dir' = NoDir
    /\ pt_configured' = FALSE
    /\ pt_calls' = Append(pt_calls, [call |-> "reset", input_dir |-> NoDir,
                                     output_dir |-> NoDir])
    /\ UNCHANGED pt_module
    /\ UNCHANGED mainvars
    /\ UNCHANGED clvars
    /\ UNCHANGED spvars
    /\ UNCHANGED pdvars
    /\ UNCHANGED hsvars
    /\ UNCHANGED bmvars
    /\ UNCHANGED slvars
    /\ UNCHANGED mgvars

(***************************************************************************)
(* export.py: migrate_to_source_hierarchy                                  *)
(***************************************************************************)
\* the .json files processed_dir.rglob may find in the three-part layout, in
\* sorted order of their paths, with what each metadata file records
MigSlots == <<
    [dir |-> "processed/isa/piping", stem |-> "elbow", standard |-> "ISA",
     category |-> "piping",
     source_path |-> << <<"input">>, <<"misc">>, <<"elbow", ".svg">> >>],
    [dir |-> "processed/isa/valve", stem |-> "gate", standard |-> "ISA",
     category |-> "valve",
     source_path |-> << <<"input">>, <<"autocad-parser">>, <<"gate", ".svg">> >>],
    [dir |-> "processed/isa/valve", stem |-> "gate_b", standard |-> "ISA",
     category |-> "valve",
     source_path |-> << <<"input">>, <<"autocad-parser">>, <<"gate_b", ".svg">> >>],
    [dir |-> "processed/isa/valve", stem |-> "gate_debug", standard |-> "ISA",
     category |-> "valve",
     source_path |-> << <<"input">>, <<"autocad-parser">>, <<"gate", ".svg">> >>],
    [dir |-> "processed/pip/piping", stem |-> "elbow", standard |-> "PIP",
     category |-> "piping",
     source_path |-> << <<"input">>, <<"misc">>, <<"elbow", ".svg">> >>],
    [dir |-> "processed", stem |-> "registry.<ts>.bak", standard |-> "unknown",
     category |-> "unknown", source_path |-> <<>>],
    [dir |-> "processed", stem |-> "registry", standard |-> "unknown",
     category |-> "unknown", source_path |-> <<>>] >>

\* the copy of registry.json the call makes before it lists the files: it is
\* there exactly when registry.json is and the run is not a dry run, it
\* parses, and no .svg lies next to it
MigIsBackup(i) == i > 0 /\ MigSlots[i].stem = "registry.<ts>.bak"
MigBackupContents == [json_ok |-> TRUE, has_svg |-> FALSE, hash |-> "h1", snaps |-> 0]
MigMayFollow(i, j, c, dry) ==
    /\ (MigIsBackup(j) => ~dry /\ c = MigBackupContents)
    /\ (MigSlots[j].stem = "registry" => dry \/ MigIsBackup(i))

\* json_path.name == "registry.json" or "_debug" in json_path.stem
MigSkipped(slot) == slot.stem \in {"registry", "gate_debug"}

\* what is found at a slot: whether the .json parses, whether its .svg is
\* there, the hash of the .svg ("" when reading it raises OSError) and the
\* number of snap points the record holds
MigContents ==
    [json_ok : {TRUE}, has_svg : {TRUE}, hash : {"h1", "h2", ""}, snaps : 0..MaxSnaps]
    \cup [json_ok : {FALSE}, has_svg : {TRUE}, hash : {"h1"}, snaps : {0}]
    \cup [json_ok : {TRUE}, has_svg : {FALSE}, hash : {"h1"}, snaps : {0}]

\* the record read from the metadata file at a slot
MigMeta(slot, c) ==
    [id             |-> slugify(<<slot.standard>>) \o "/" \o slot.category \o "/" \o slot.stem,
     standard       |-> slot.standard,
     category       |-> slot.category,
     source_path    |-> slot.source_path,
     svg_path       |-> slot.dir \o "/" \o slot.stem \o ".svg",
     metadata_path  |-> slot.dir \o "/" \o slot.stem \o ".json",
     classification |-> [confidence |-> "high", method |-> "filename"],
     snap_points    |-> DetectedPoints(c.snaps),
     notes          |-> "",
     completed      |-> FALSE,
     content_hash   |-> ""]

MigSourceSlug(meta) ==
    IF meta.source_path # <<>> THEN source_slug_from_path(meta.source_path)
    ELSE "unknown_source"

MigStandardPart(meta) ==
    IF meta.category \in PIP_CATEGORIES THEN "pip" ELSE safe_std_slug(meta.standard)

MigTargetDir(meta) ==
    PROCESSED_DIR \o "/" \o MigSourceSlug(meta) \o "/" \o MigStandardPart(meta)
        \o "/" \o meta.category

MigUsed(used, dir) == {u.stem : u \in {v \in used : v.dir = dir}}

\* final_stem: the stem itself when the directory has not seen it, else
\* what resolve_stem returns; no legacy file lies in a directory of the new
\* layout, so resolve_stem finds nothing on disk
MigFinalStem(slot, dir, used) ==
    IF slot.stem \in MigUsed(used, dir)
    THEN resolve_stem(slot.stem, dir, MigUsed(used, dir), {})
    ELSE slot.stem

MigNewId(meta, final_stem) ==
    MigSourceSlug(meta) \o "/" \o MigStandardPart(meta) \o "/" \o meta.category
        \o "/" \o final_stem

\* the record as it is once the pass has set id, svg_path, metadata_path and
\* content_hash; hash_map and moves hold this same object
MigMoved(meta, dir, final_stem, content_hash) ==
    [meta EXCEPT !.id            = MigNewId(meta, final_stem),
                 !.svg_path      = dir \o "/" \o final_stem \o ".svg",
                 !.metadata_path = dir \o "/" \o final_stem \o ".json",
                 !.content_hash  = IF content_hash # "" THEN content_hash ELSE @]

MigPut(f, k, v) == [x \in DOMAIN f \cup {k} |-> IF x = k THEN v ELSE f[x]]
MigGet(f, k) == IF k \in DOMAIN f THEN f[k] ELSE <<>>

MigInit ==
    /\ mg_pc = "scan"
    /\ mg_dry_run \in BOOLEAN
    /\ mg_idx = 0
    /\ mg_moves = <<>>
    /\ mg_used_stems = {}
    /\ mg_hash_map = <<>>
    /\ mg_hashes = <<>>
    /\ mg_skipped = 0
    /\ mg_registry = None
MigIdle ==
    /\ mg_pc = "idle"
    /\ mg_dry_run = FALSE
    /\ mg_idx = 0
    /\ mg_moves = <<>>
    /\ mg_used_stems = {}
    /\ mg_hash_map = <<>>
    /\ mg_hashes = <<>>
    /\ mg_skipped = 0
    /\ mg_registry = None

\* one pass of "for json_path in json_files" over the next file there is
MigScan ==
    /\ mg_pc = "scan"
    /\ \E j \in (mg_idx + 1)..Len(MigSlots), c \in MigContents :
        /\ MigMayFollow(mg_idx, j, c, mg_dry_run)
        /\ LET slot == MigSlots[j]
               meta == MigMeta(slot, c)
               dir  == MigTargetDir(meta)
               final_stem == MigFinalStem(slot, dir, mg_used_stems)
               new_id == MigNewId(meta, final_stem)
               used2  == mg_used_stems \cup {[dir |-> dir, stem |-> final_stem]}
               moved  == MigMoved(meta, dir, final_stem, c.hash)
           IN
           /\ mg_idx' = j
           /\ IF MigSkipped(slot)
              THEN UNCHANGED <<mg_moves, mg_used_stems, mg_hash_map, mg_hashes, mg_skipped>>
              ELSE IF ~c.json_ok \/ ~c.has_svg
              THEN /\ mg_skipped' = mg_skipped + 1
                   /\ UNCHANGED <<mg_moves, mg_used_stems, mg_hash_map, mg_hashes>>
              ELSE IF c.hash # "" /\ c.hash \in DOMAIN mg_hash_map
              THEN IF metadata_quality(meta) <= metadata_quality(mg_hash_map[c.hash])
                   THEN /\ mg_hashes' = MigPut(mg_hashes, c.hash,
                                           Append(MigGet(mg_hashes, c.hash), new_id))
                        /\ mg_skipped' = mg_skipped + 1
                        /\ mg_used_stems' = used2
                        /\ UNCHANGED <<mg_moves, mg_hash_map>>
                   ELSE /\ mg_hashes' = MigPut(mg_hashes, c.hash,
                                           Append(MigGet(mg_hashes, c.hash),
                                                  mg_hash_map[c.hash].id))
                        /\ mg_hash_map' = MigPut(mg_hash_map, c.hash, moved)
                        /\ mg_used_stems' = used2
                        /\ mg_moves' = Append(mg_moves, [from |-> j, meta |-> moved])
                        /\ UNCHANGED mg_skipped
              ELSE /\ IF c.hash # ""
                      THEN /\ mg_hash_map' = MigPut(mg_hash_map, c.hash, moved)
                           /\ mg_hashes' = MigPut(mg_hashes, c.hash, <<new_id>>)
                      ELSE UNCHANGED <<mg_hash_map, mg_hashes>>
                   /\ mg_used_stems' = used2
                   /\ mg_moves' = Append(mg_moves, [from |-> j, meta |-> moved])
                   /\ UNCHANGED mg_skipped
    /\ UNCHANGED <<mg_pc, mg_dry_run, mg_registry>>
    /\ UNCHANGED mainvars
    /\ UNCHANGED clvars
    /\ UNCHANGED spvars
    /\ UNCHANGED pdvars
    /\ UNCHANGED hsvars
    /\ UNCHANGED bmvars
    /\ UNCHANGED slvars
    /\ UNCHANGED ptvars

\* after the last file: a dry run returns; otherwise every move is carried
\* out, the ones that raise OSError are left out, and registry.json is
\* rewritten from the records moved
MigFinish ==
    /\ mg_pc = "scan"
    /\ ~MigIsBackup(mg_idx)
    /\ mg_pc' = "done"
    /\ IF mg_dry_run
       THEN UNCHANGED mg_registry
       ELSE \E failed \in SUBSET {m.from : m \in Range(mg_moves)} :
              mg_registry' =
                 [symbols |-> LET ok == SelectSeq(mg_moves, LAMBDA m : m.from \notin failed)
                              IN  [i \in 1..Len(ok) |-> ok[i].meta],
                  hashes  |-> mg_hashes]
    /\ UNCHANGED <<mg_dry_run, mg_idx, mg_moves, mg_used_stems, mg_hash_map,
                   mg_hashes, mg_skipped>>
    /\ UNCHANGED mainvars
    /\ UNCHANGED clvars
    /\ UNCHANGED spvars
    /\ UNCHANGED pdvars
    /\ UNCHANGED hsvars
    /\ UNCHANGED bmvars
    /\ UNCHANGED slvars
    /\ UNCHANGED ptvars

(***************************************************************************)
(* Specifications                                                          *)
(***************************************************************************)
vars == <<cl_path, cl_result, pc, dry_run, idx, registry, hash_map, hashes,
          used_stems, processed_count, errors, duplicates, conf_counts,
          svg_files_out, json_files, registry_file, log,
          sp_doc, sp_category, sp_result, pd_d, pd_ends, pd_segs,
          hs_a, hs_b, hs_main, hs_utils,
          bm_path, bm_meta,
          sl_path, sl_result,
          pt_input_dir, pt_processed_dir, pt_configured, pt_module, pt_calls,
          mg_pc, mg_dry_run, mg_idx, mg_moves, mg_used_stems, mg_hash_map, mg_hashes, mg_skipped, mg_registry>>

\* a run of main over a corpus
Init == MainInit /\ ClassifyIdle /\ SnapIdle /\ PathIdle /\ HashIdle /\ BuildIdle /\ SlugIdle /\ PathsIdle /\ MigIdle
Next == ProcessFile \/ Finish
Spec == Init /\ [][Next]_vars

\* classify applied to a path
InitClassify == ClassifyInit /\ MainIdle /\ SnapIdle /\ PathIdle /\ HashIdle /\ BuildIdle /\ SlugIdle /\ PathsIdle /\ MigIdle
NextClassify == DoClassify
SpecClassify == InitClassify /\ [][NextClassify]_vars

\* detect_snap_points applied to a document
InitSnap == SnapInit /\ MainIdle /\ ClassifyIdle /\ PathIdle /\ HashIdle /\ BuildIdle /\ SlugIdle /\ PathsIdle /\ MigIdle
NextSnap == DoDetect
SpecSnap == InitSnap /\ [][NextSnap]_vars

\* the two extractions applied to path data
InitPath == PathInit /\ MainIdle /\ ClassifyIdle /\ SnapIdle /\ HashIdle /\ BuildIdle /\ SlugIdle /\ PathsIdle /\ MigIdle
NextPath == DoPath
SpecPath == InitPath /\ [][NextPath]_vars

\* the two content hashes applied to a document and to a renaming of it
InitHash == HashInit /\ MainIdle /\ ClassifyIdle /\ SnapIdle /\ PathIdle /\ BuildIdle /\ SlugIdle /\ PathsIdle /\ MigIdle
NextHash == DoHash
SpecHash == InitHash /\ [][NextHash]_vars

\* the try block of main applied to one file
InitBuild == BuildInit /\ MainIdle /\ ClassifyIdle /\ SnapIdle /\ PathIdle /\ HashIdle /\ SlugIdle /\ PathsIdle /\ MigIdle
NextBuild == DoBuild
SpecBuild == InitBuild /\ [][NextBuild]_vars

\* _source_slug_from_path applied to a path
InitSlug ==
    SlugInit /\ MainIdle /\ ClassifyIdle /\ SnapIdle /\ PathIdle /\ HashIdle /\ BuildIdle
        /\ PathsIdle /\ MigIdle
NextSlug == DoSlug
SpecSlug == InitSlug /\ [][NextSlug]_vars

\* calls of Paths.configure and Paths.reset after the module is imported
InitPaths ==
    PathsInit /\ MainIdle /\ ClassifyIdle /\ SnapIdle /\ PathIdle /\ HashIdle
        /\ BuildIdle /\ SlugIdle /\ MigIdle
NextPaths == Configure \/ Reset
SpecPaths == InitPaths /\ [][NextPaths]_vars

\* one call of migrate_to_source_hierarchy over a three-part processed tree
InitMigrate ==
    MigInit /\ MainIdle /\ ClassifyIdle /\ SnapIdle /\ PathIdle /\ HashIdle
        /\ BuildIdle /\ SlugIdle /\ PathsIdle
NextMigrate == MigScan \/ MigFinish
SpecMigrate == InitMigrate /\ [][NextMigrate]_vars

(***************************************************************************)
(* Properties of a run of main                                             *)
(***************************************************************************)
LiveByHash(reg, h) == {m \in Range(reg) : m.content_hash = h}
Outcomes(o) == {k \in DOMAIN log : log[k].outcome = o}

\* C1: when the file just processed has the content hash of a live record,
\* it replaces that record if and only if its quality is strictly greater;
\* otherwise (ties included) the live list is left as it was and the file is
\* counted as a duplicate.
C1_ReplaceIffStrictlyBetter ==
    [][ Len(log') = Len(log) + 1 =>
          LET e == log'[Len(log')]
              incumbents == LiveByHash(registry, e.hash)
          IN  (e.outcome # "error" /\ incumbents # {}) =>
                \A old \in incumbents :
                    IF e.quality > metadata_quality(old)
                    THEN /\ old \notin Range(registry')
                         /\ \E m \in Range(registry') :
                               m.source_path = e.file /\ m.content_hash = e.hash
                    ELSE /\ registry' = registry
                         /\ e.outcome = "duplicate" ]_vars

\* a run in which one file replaced a live record and another, of equal
\* quality to the live record of its hash, was dropped
C1_Witness ==
    /\ Outcomes("replaces") # {}
    /\ \E k \in Outcomes("duplicate") :
          \E m \in LiveByHash(registry, log[k].hash) :
              metadata_quality(m) = log[k].quality

\* C2: after every file, the live list holds at most one record per content
\* hash, and no file dropped as a duplicate has a record in it.
C2_OneLivePerHash ==
    /\ \A i, j \in DOMAIN registry :
          i # j => registry[i].content_hash # registry[j].content_hash
    /\ \A k \in Outcomes("duplicate") :
          \A m \in Range(registry) : m.source_path # log[k].file /\ m.id # log[k].id

C2_Witness ==
    /\ Outcomes("replaces") # {}
    /\ Outcomes("duplicate") # {}
    /\ Len(registry) = 2

\* C3: at the end of a run, the hash multimap lists, under its hash, the id
\* of every file that got a record: the live one, the dropped ones and the
\* replaced ones.
C3_HashesListEveryId ==
    pc = "done" =>
        \A k \in DOMAIN log :
            log[k].outcome # "error" =>
                /\ log[k].hash \in DOMAIN hashes
                /\ log[k].id \in Range(hashes[log[k].hash])

DiskAtStart ==
    IF dry_run THEN svg_files_out
    ELSE svg_files_out \ {[dir |-> log[k].dir, stem |-> log[k].stem] :
                            k \in Outcomes("new") \cup Outcomes("replaces")}

Candidate(base, k) == IF k = 1 THEN base ELSE base \o "_" \o ToString(k)

\* C5: every file gets a stem that no earlier file of the run with the same
\* target directory got and that was not on disk there, and that stem is the
\* first free one among base, base_2, base_3, ...
C5_StemsNeverCollide ==
    \A j \in DOMAIN log :
        LET e     == log[j]
            base  == e.base
            taken == {log[i].stem : i \in {i \in 1..(j - 1) : log[i].dir = e.dir}}
                     \cup {f.stem : f \in {f \in DiskAtStart : f.dir = e.dir}}
        IN  /\ e.stem \notin taken
            /\ \E k \in 1..(Cardinality(taken) + 1) :
                  /\ e.stem = Candidate(base, k)
                  /\ \A m \in 1..(k - 1) : Candidate(base, m) \in taken

\* two files named valve and one named valve_2, all for one directory with
\* nothing on disk: they get valve, valve_2 and valve_3
C5_Witness ==
    /\ DiskAtStart = {}
    /\ \E i, j, k \in DOMAIN log :
          /\ i < j /\ j < k
          /\ log[i].dir = log[j].dir /\ log[j].dir = log[k].dir
          /\ CorpusFacts[log[i].file].base_stem = "valve" /\ log[i].stem = "valve"
          /\ CorpusFacts[log[j].file].base_stem = "valve_2" /\ log[j].stem = "valve_2"
          /\ CorpusFacts[log[k].file].base_stem = "valve" /\ log[k].stem = "valve_3"

(***************************************************************************)
(* Properties of classify                                                  *)
(***************************************************************************)
\* when strategy i applies to a path, stated from the path alone
Matches(i, p) ==
    CASE i = 1 -> REFERENCE_RE(p.stem)
      [] i = 2 -> /\ p.rel = "inside" /\ Len(p.dirs) >= 2
                  /\ p.dirs[1] = "autocad-parser"
                  /\ p.dirs[2] \in DOMAIN AUTOCAD_FOLDER_MAP
      [] i = 3 -> \E k \in DOMAIN p.stem : STANDARD_RE(p.stem[k])
      [] i = 4 -> /\ p.rel = "inside" /\ Len(p.dirs) >= 3
                  /\ p.dirs[1] = "pid-symbols-generator" /\ p.dirs[2] = "downloaded"
                  /\ p.dirs[3] \in DOMAIN DOWNLOADED_FOLDER_MAP
      [] i = 5 -> /\ p.rel = "inside" /\ Len(p.dirs) >= 2
                  /\ p.dirs[1] = "pid-symbols-generator" /\ p.dirs[2] = "generated"
                  /\ \E k \in DOMAIN GENERATED_PREFIX_MAP :
                        StartsWith(p.stem, GENERATED_PREFIX_MAP[k][1])
      [] i = 6 -> \E k \in DOMAIN KEYWORD_HEURISTICS :
                        Contains(LowerSeq(p.stem), KEYWORD_HEURISTICS[k][1])

FirstMatch(p) ==
    IF \E i \in 1..NumStrategies : Matches(i, p)
    THEN CHOOSE i \in 1..NumStrategies :
            Matches(i, p) /\ \A j \in 1..(i - 1) : ~Matches(j, p)
    ELSE 0

MethodNames ==
    <<"reference_sheet_detection", "autocad_folder_map", "filename_standard_tag",
      "downloaded_folder_map", "generated_prefix_map", "keyword_heuristic">>

Returned == cl_result # Pending /\ ~IsRaise(cl_result)

\* C6: what classify returns is the result of the first strategy, in the
\* order reference sheet, source-folder map, filename tag, downloaded-folder
\* map, generated prefix, keyword scan, that applies to the path; a stem
\* matching the reference-sheet pattern is a reference sheet in any folder.
C6_FirstMatchWins ==
    Returned =>
        LET first == FirstMatch(cl_path)
        IN  /\ cl_result.method =
                  IF first = 0 THEN "unclassified" ELSE MethodNames[first]
            /\ first # 0 => cl_result = Strategy(first, cl_path)
            /\ REFERENCE_RE(cl_path.stem) => cl_result.category = "reference_sheet"

\* a reference-sheet stem in a folder the source-folder map knows
C6_Witness ==
    /\ Returned
    /\ cl_result.method = "reference_sheet_detection"
    /\ Matches(2, cl_path)

\* whether the category came from the keyword table
CategoryFromKeywords(p, r) ==
    \/ r.method = "keyword_heuristic"
    \/ /\ r.method = "filename_standard_tag"
       /\ ParentName(p) \notin DOMAIN DOWNLOADED_FOLDER_MAP

\* C7: when the stem contains a keyword phrase and a shorter keyword that is
\* part of it, and no longer keyword, the category taken from the keyword
\* table is the one of the phrase.
C7_LongerKeywordWins ==
    (Returned /\ CategoryFromKeywords(cl_path, cl_result)) =>
        LET stem_low == LowerSeq(cl_path.stem)
            found == {x \in Range(KEYWORD_HEURISTICS) : Contains(stem_low, x[1])}
        IN  \A a, b \in found :
                ( /\ a[1] # b[1] /\ Contains(a[1], b[1])
                  /\ \A c \in found : KeyLen(c) <= KeyLen(a) )
                => cl_result.category = a[2]

\* C8: the confidence is high exactly for the results of the five path- and
\* filename-based strategies, low exactly for those of the keyword scan and
\* none exactly for the unclassified result.
C8_ConfidenceByStrategy ==
    Returned =>
        LET first == FirstMatch(cl_path)
        IN  /\ cl_result.confidence \in {"high", "low", "none"}
            /\ (cl_result.confidence = "high") <=> (first \in 1..5)
            /\ (cl_result.confidence = "low") <=> (first = 6)
            /\ (cl_result.confidence = "none") <=> (cl_result.method = "unclassified")

\* a keyword-scan result
C8_Witness ==
    /\ Returned
    /\ cl_result.method = "keyword_heuristic"
    /\ cl_result.confidence = "low"

\* C9: for a path no strategy applies to, classify returns the unknown
\* result and raises nothing.
C9_TotalOnUnmatched ==
    (cl_result # Pending /\ FirstMatch(cl_path) = 0) =>
        /\ ~IsRaise(cl_result)
        /\ cl_result.standard = "unknown"
        /\ cl_result.category = "unknown"
        /\ cl_result.confidence = "none"
        /\ cl_result.method = "unclassified"

(***************************************************************************)
(* Properties of detect_snap_points                                        *)
(***************************************************************************)
SnapReturned == sp_result # Pending /\ ~IsRaise(sp_result)

\* what each of the four strategies yields for the document, a strategy
\* that is not tried for the category yielding nothing
SnapTried ==
    LET segs == straight_segments(sp_doc.elems)
        vb   == IF Len(sp_doc.viewBox.nums) >= 4 THEN sp_doc.viewBox.nums ELSE <<>>
    IN  << id_points(sp_doc.elems, <<>>),
           IF sp_category \in OPEN_END_CATS
           THEN label_floating(floating_endpoints(sp_doc.elems, segs), sp_category)
           ELSE <<>>,
           IF sp_category \in BUBBLE_CATS THEN bubble_points(sp_doc.elems) ELSE <<>>,
           bbox_points(sp_doc.elems, segs, vb, sp_category) >>

\* C10: the list returned for a parsed document is the first non-empty one
\* among markers, open ends (open-end categories only), bubble cardinals
\* (bubble categories only) and the bounding box, in that order; for a
\* category of neither kind and a document without marker points it is the
\* bounding-box result.
C10_StrategyOrder ==
    (SnapReturned /\ ~sp_doc.parse_error) =>
        LET tried == SnapTried
            nonempty == {i \in DOMAIN tried : tried[i] # <<>>}
        IN  /\ sp_result.ret =
                  IF nonempty = {} THEN <<>> ELSE tried[MinOf(nonempty)]
            /\ (sp_category \notin OPEN_END_CATS \cup BUBBLE_CATS /\ tried[1] = <<>>)
               => sp_result.ret = tried[4]

\* an actuator drawn with open stubs and a circle and no marker: the
\* bounding box answers although open ends and bubbles exist
C10_Witness ==
    /\ SnapReturned
    /\ ~sp_doc.parse_error
    /\ sp_category \in ACTUATOR_CATS
    /\ id_points(sp_doc.elems, <<>>) = <<>>
    /\ floating_endpoints(sp_doc.elems, straight_segments(sp_doc.elems)) # <<>>
    /\ bubble_points(sp_doc.elems) # <<>>
    /\ sp_result.ret # <<>>
    /\ sp_result.ret = SnapTried[4]

\* the elements carrying a port keyword, in document order
MarkerElems(elems) == PickIdx(elems, {i \in DOMAIN elems : IsMarker(elems[i])})

\* C11: when the document has elements whose id or class holds a port
\* keyword, the returned list has exactly one point per such element, in
\* document order, each at the centre of its element.
C11_OnePointPerMarker ==
    (SnapReturned /\ ~sp_doc.parse_error /\ MarkerElems(sp_doc.elems) # <<>>) =>
        LET ms == MarkerElems(sp_doc.elems)
        IN  /\ Len(sp_result.ret) = Len(ms)
            /\ \A k \in DOMAIN ms :
                  MarkerCentre(ms[k]) # <<>> =>
                      /\ sp_result.ret[k].x = MarkerCentre(ms[k])[1]
                      /\ sp_result.ret[k].y = MarkerCentre(ms[k])[2]

\* the open-end strategy produced the returned list
OpenEndsAnswered ==
    /\ SnapReturned
    /\ ~sp_doc.parse_error
    /\ sp_category \in OPEN_END_CATS
    /\ id_points(sp_doc.elems, <<>>) = <<>>
    /\ floating_endpoints(sp_doc.elems, straight_segments(sp_doc.elems)) # <<>>

\* the number of straight segments with an end at pt
Terminating(segs, pt) ==
    Cardinality({k \in DOMAIN segs : segs[k][1] = pt \/ segs[k][2] = pt})
\* pt lies, within tolerance, on a segment it is not an end of
OnAnotherSegment(segs, pt) ==
    \E k \in DOMAIN segs :
        /\ segs[k][1] # pt
        /\ segs[k][2] # pt
        /\ on_segment(pt[1], pt[2], segs[k][1], segs[k][2])

\* C12: every point the open-end strategy reports is the end of exactly one
\* segment and lies on no other segment; a point where two or more segments
\* meet is not among the reported points.
C12_OpenEndsAreFree ==
    OpenEndsAnswered =>
        LET segs == straight_segments(sp_doc.elems)
        IN  \A k \in DOMAIN sp_result.ret :
                LET pt == <<sp_result.ret[k].x, sp_result.ret[k].y>>
                IN  Terminating(segs, pt) = 1 /\ ~OnAnotherSegment(segs, pt)

\* the endpoints the open-end strategy retained
Retained ==
    Range(floating_endpoints(sp_doc.elems, straight_segments(sp_doc.elems)))
PointOf(sp) == <<sp.x, sp.y>>

\* C13: with two or more retained endpoints the first returned point is
\* "in" at a retained endpoint with the smallest coordinate along the axis
\* of larger spread, the second is "out" at one with the largest, the others
\* are p1, p2, ... in ascending position order, and each retained endpoint
\* is returned once; open ends at (0,10) and (40,10) give in (0,10) and
\* out (40,10) and nothing else.
C13_InOutByDominantAxis ==
    (OpenEndsAnswered /\ Cardinality(Retained) >= 2) =>
        LET ret    == sp_result.ret
            xs     == {p[1] : p \in Retained}
            ys     == {p[2] : p \in Retained}
            x_span == MaxOf(xs) - MinOf(xs)
            y_span == MaxOf(ys) - MinOf(ys)
            axes   == {a \in {1, 2} : IF a = 1 THEN x_span >= y_span
                                               ELSE y_span >= x_span}
        IN  /\ Len(ret) = Cardinality(Retained)
            /\ {PointOf(ret[k]) : k \in DOMAIN ret} = Retained
            /\ ret[1].id = "in"
            /\ ret[2].id = "out"
            /\ \E a \in axes :
                  /\ \A p \in Retained : PointOf(ret[1])[a] <= p[a]
                  /\ \A p \in Retained : p[a] <= PointOf(ret[2])[a]
            /\ \A k \in 3..Len(ret) : ret[k].id = "p" \o ToString(k - 2)
            /\ \A k \in 3..(Len(ret) - 1) :
                  PointLess(PointOf(ret[k]), PointOf(ret[k + 1]))
            /\ Retained = {<<0, 10>>, <<40, 10>>} =>
                  ret = <<Point("in", 0, 10), Point("out", 40, 10)>>

\* four open ends spread along x: in, out, p1 and p2
C13_Witness ==
    /\ OpenEndsAnswered
    /\ Cardinality(Retained) = 4
    /\ sp_result.ret[3].id = "p1"
    /\ sp_result.ret[4].id = "p2"
    /\ sp_result.ret[1].x < sp_result.ret[3].x
    /\ sp_result.ret[4].x < sp_result.ret[2].x

\* the bounding-box fallback produced the returned list
BoxAnswered ==
    /\ SnapReturned
    /\ ~sp_doc.parse_error
    /\ SnapTried[1] = <<>>
    /\ SnapTried[2] = <<>>
    /\ SnapTried[3] = <<>>

\* the segment from s to e lies within one edge of the viewport vb
EntirelyOnBoundary(vb, s, e) ==
    LET within(lo, v, hi) == lo <= v /\ v <= hi
    IN  \/ /\ s[1] = e[1]
           /\ s[1] \in {vb[1], vb[1] + vb[3]}
           /\ within(vb[2], s[2], vb[2] + vb[4])
           /\ within(vb[2], e[2], vb[2] + vb[4])
        \/ /\ s[2] = e[2]
           /\ s[2] \in {vb[2], vb[2] + vb[4]}
           /\ within(vb[1], s[1], vb[1] + vb[3])
           /\ within(vb[1], e[1], vb[1] + vb[3])

\* C14: the bounding box the fallback returns is the one of the circle and
\* ellipse extremes and of both ends of every segment except those lying
\* entirely on the boundary of the declared viewport.
C14_BoundaryOnlyExcluded ==
    (BoxAnswered /\ Len(sp_doc.viewBox.nums) >= 4) =>
        LET vb   == sp_doc.viewBox.nums
            segs == straight_segments(sp_doc.elems)
            kept == Flatten([k \in DOMAIN segs |->
                        IF EntirelyOnBoundary(vb, segs[k][1], segs[k][2])
                        THEN <<>> ELSE segs[k]])
        IN  sp_result.ret = bbox_label(kept \o round_pts(sp_doc.elems), sp_category)

\* no element of the document draws anything
NoGeometry(doc) ==
    \A k \in DOMAIN doc.elems :
        doc.elems[k].tag \notin {"line", "path", "circle", "ellipse", "rect"}

\* C15: for a document that cannot be parsed, and for a parsed document
\* without drawable geometry, detect_snap_points returns the empty list and
\* raises nothing.
C15_EmptyNotError ==
    (sp_result # Pending /\ (sp_doc.parse_error \/ NoGeometry(sp_doc))) =>
        sp_result = Return(<<>>)

\* C27: for every document that parses, whatever its viewBox and coordinate
\* attributes hold, detect_snap_points returns a list and raises nothing.
C27_NeverRaisesOnParsedDocument ==
    (sp_result # Pending /\ ~sp_doc.parse_error) => ~IsRaise(sp_result)

\* With a viewBox of four plain numbers, or none, and numeric attributes on
\* the marker elements, nothing is raised.
NumericDocumentNeverRaises ==
    (sp_result # Pending /\ ~sp_doc.parse_error /\ ~sp_doc.viewBox.bad
        /\ \A k \in DOMAIN sp_doc.elems : sp_doc.elems[k].bad = {})
    => ~IsRaise(sp_result)

\* C29: the open-end strategy returns exactly one snap point per retained
\* endpoint, and no two returned snap points have the same coordinates, also
\* when a single endpoint is retained.
C29_OnePointPerOpenEnd ==
    OpenEndsAnswered =>
        /\ Len(sp_result.ret) = Cardinality(Retained)
        /\ \A i, j \in DOMAIN sp_result.ret :
              i # j => PointOf(sp_result.ret[i]) # PointOf(sp_result.ret[j])

\* With two or more retained endpoints there is one point per endpoint.
OnePointPerOpenEndFromTwo ==
    (OpenEndsAnswered /\ Cardinality(Retained) >= 2) =>
        /\ Len(sp_result.ret) = Cardinality(Retained)
        /\ \A i, j \in DOMAIN sp_result.ret :
              i # j => PointOf(sp_result.ret[i]) # PointOf(sp_result.ret[j])

(***************************************************************************)
(* Properties of the path-data extractions                                 *)
(***************************************************************************)
RECURSIVE PenWalk(_, _)
PenWalk(steps, cur) ==
    IF steps = <<>> THEN cur ELSE PenWalk(Tail(steps), Move(cur, Head(steps)))

\* the subpaths of path data as they are drawn: a relative command starts
\* from the current point, a curve ends at its last coordinate pair, a
\* close-path returns to the start of the subpath
RECURSIVE Drawn(_, _, _)
Drawn(d, cur, subs) ==
    IF d = <<>> THEN subs
    ELSE LET c     == Head(d)
             n     == Len(subs)
             start == IF n = 0 THEN <<0, 0>> ELSE subs[n].first
             nxt   == CASE c.cmd = "C" -> <<c.nums[Len(c.nums) - 1], c.nums[Len(c.nums)]>>
                        [] c.cmd \in {"Z", "z"} -> start
                        [] OTHER -> PenWalk(PathSteps(c), cur)
         IN  IF c.cmd \in {"M", "m"}
             THEN Drawn(Tail(d), nxt,
                        Append(subs, [first |-> nxt, last |-> nxt,
                                      closed |-> FALSE, straight |-> FALSE]))
             ELSE Drawn(Tail(d), nxt,
                        [subs EXCEPT ![n] =
                            [first    |-> @.first,
                             last     |-> nxt,
                             closed   |-> @.closed \/ c.cmd \in {"Z", "z"},
                             straight |-> @.straight
                                          \/ c.cmd \in {"L", "l", "H", "h", "V", "v"}]])

\* C16: the open ends reported for path data are the first and the last
\* coordinate of each subpath that has no close-path command and at least
\* one straight-line command, subpath after subpath (once when the two
\* coincide); other subpaths contribute nothing.
C16_OpenEndsOfSubpaths ==
    pd_ends # Pending =>
        LET subs == Drawn(pd_d, <<0, 0>>, <<>>)
        IN  pd_ends.ret =
                Flatten([k \in DOMAIN subs |->
                    IF subs[k].closed \/ ~subs[k].straight THEN <<>>
                    ELSE IF subs[k].last = subs[k].first THEN <<subs[k].first>>
                    ELSE <<subs[k].first, subs[k].last>>])

\* C17: the two extractions follow one cursor, so they place every subpath
\* at the same coordinates: each open end reported for the path data is an
\* end of one of the segments extracted from it.
C17_OneCursor ==
    pd_ends # Pending =>
        \A p \in Range(pd_ends.ret) :
            \E k \in DOMAIN pd_segs.ret :
                p = pd_segs.ret[k][1] \/ p = pd_segs.ret[k][2]

(***************************************************************************)
(* Properties of the batch as a whole                                      *)
(***************************************************************************)
\* C19: no file's failure aborts the batch: the run is either still in its
\* loop or has reached the summary, and the counters processed, duplicates
\* and errors add up to the number of non-debug files examined.
C19_BatchNeverAborts ==
    /\ pc \in {"loop", "done"}
    /\ processed_count + duplicates + errors = Len(log)

\* The accounting alone: whenever a file's pass ends, exactly one of the
\* three counters has been incremented.
CountersAddUp == processed_count + duplicates + errors = Len(log)

\* a metadata file as the port editor saved it
SavedByEditor(r) ==
    r # Truncated /\ \E i \in DOMAIN r.snap_points : r.snap_points[i].by = "editor"

\* C20: snap points an editor has saved are not replaced by a later run: the
\* metadata file that holds them is left as it is, and when the run has
\* written the registry, every record the registry holds for that source
\* file carries the edited snap points.
C20_EditedPointsSurvive ==
    /\ [][\A out \in DOMAIN json_files :
             SavedByEditor(json_files[out]) =>
                 out \in DOMAIN json_files' /\ json_files'[out] = json_files[out]]_vars
    /\ [](\A out \in DOMAIN json_files :
             (pc = "done" /\ ~dry_run /\ SavedByEditor(json_files[out])) =>
                 \A m \in Range(registry_file.symbols) :
                     m.source_path = json_files[out].source_path
                         => m.snap_points = json_files[out].snap_points)

\* The first half alone: no step of a run touches a metadata file the editor
\* has saved.
EditedFileLeftAlone ==
    [][\A out \in DOMAIN json_files :
          SavedByEditor(json_files[out]) =>
              out \in DOMAIN json_files' /\ json_files'[out] = json_files[out]]_vars

\* the path of the .svg (and, with ext ".json", of the metadata file) of an
\* output stem
OutPath(out, ext) == out.dir \o "/" \o out.stem \o ext
\* the output directory held nothing when the run began
StartedEmpty == \A out \in DOMAIN json_files : ~SavedByEditor(json_files[out])

\* C24: at the end of a non-dry run into an empty output directory, the
\* .svg and .json files written are exactly those of the live records of
\* the registry: none belongs to a record that was replaced or dropped.
C24_FilesMatchLiveRecords ==
    (pc = "done" /\ ~dry_run /\ StartedEmpty) =>
        /\ {OutPath(out, ".svg") : out \in svg_files_out}
              = {m.svg_path : m \in Range(registry_file.symbols)}
        /\ DOMAIN json_files = svg_files_out
        /\ \A out \in DOMAIN json_files :
              json_files[out] \in Range(registry_file.symbols)

\* Without a replacement in the run the files and the live records match.
FilesMatchWhenNothingReplaced ==
    (pc = "done" /\ ~dry_run /\ StartedEmpty /\ Outcomes("replaces") = {}) =>
        /\ {OutPath(out, ".svg") : out \in svg_files_out}
              = {m.svg_path : m \in Range(registry_file.symbols)}
        /\ DOMAIN json_files = svg_files_out
        /\ \A out \in DOMAIN json_files :
              json_files[out] \in Range(registry_file.symbols)

\* the output of an earlier run over the first file is under processed/
EarlierOutputPresent == \E out \in DOMAIN json_files : SavedByEditor(json_files[out])

\* C25: a second run over an unchanged corpus with the same output
\* directory gives a source file the id and stem (hence the output file
\* names) it got in the first run.
C25_SecondRunSameNames ==
    (EarlierOutputPresent /\ log # <<>> /\ log[1].file = EarlierRecord.source_path
        /\ log[1].hash = EarlierRecord.content_hash /\ log[1].outcome = "new")
    => /\ log[1].id = EarlierRecord.id
       /\ log[1].stem \o ".svg" = EarlierRecord.filename

\* the stems of the files before entry k of the log that went to directory
\* dir and ended as records (new or replacing)
RecordedStems(k, dir) ==
    {log[i].stem : i \in {j \in 1..(k - 1) :
                            log[j].dir = dir /\ log[j].outcome \in {"new", "replaces"}}}

\* C28: a file that ends as an error or as a dropped duplicate reserves no
\* stem: every file that gets a record takes the stem resolve_stem gives
\* when only the stems of the files recorded before it, and the files on
\* disk, are taken.
C28_FailedFilesReserveNothing ==
    [][ Len(log') = Len(log) + 1 =>
          LET e == log'[Len(log')]
          IN  e.outcome \in {"new", "replaces"} =>
                e.stem = resolve_stem(e.base, e.dir, RecordedStems(Len(log'), e.dir),
                                      svg_files_out) ]_vars

\* The stem of a recorded file is the one resolve_stem gives when the stems
\* of all files taken before it, whatever became of them, are reserved.
EveryFileTakenReserves ==
    [][ Len(log') = Len(log) + 1 =>
          LET e == log'[Len(log')]
          IN  e.outcome \in {"new", "replaces"} =>
                e.stem = resolve_stem(e.base, e.dir,
                                      {log[i].stem : i \in {j \in DOMAIN log : log[j].dir = e.dir}},
                                      svg_files_out) ]_vars

(***************************************************************************)
(* Properties of the content hash                                          *)
(***************************************************************************)
\* the identifiers a document defines, in either quoting
Defined(content) == {content[i].name : i \in {j \in 1..Len(content) : content[j].tok = "id"}}
\* every reference points at an identifier the document defines
RefsResolve(content) ==
    \A i \in 1..Len(content) :
        content[i].tok \in {"url", "href"} => content[i].name \in Defined(content)

\* C18: two documents that differ only by a one-to-one renaming of their
\* identifiers and of every reference to them get the same content hash from
\* the pipeline.
C18_RenamingKeepsHash ==
    (hs_main # Pending /\ RefsResolve(hs_a)) => hs_main.ret[1] = hs_main.ret[2]

\* The canonicalising digest of utils.py is the same for both documents when
\* every identifier is written in double quotes.
CanonicalHashOfDoubleQuoted ==
    (hs_utils # Pending /\ RefsResolve(hs_a)
        /\ \A i \in 1..Len(hs_a) : hs_a[i].tok = "id" => hs_a[i].q = "dq")
    => hs_utils.ret[1] = hs_utils.ret[2]

(***************************************************************************)
(* Properties of the record build_metadata returns                         *)
(***************************************************************************)
Built == bm_meta # Pending /\ ~IsRaise(bm_meta)

\* C21: the id of a record is <source>/<standard-slug>/<category>/<stem>,
\* the second component being the slug of the record's own standard and the
\* others its source slug, its category and its final stem.
C21_IdComposedOfOwnStandard ==
    Built =>
        LET m == bm_meta.ret
        IN  m.id \o ".svg" =
                source_slug_from_path(SourceParts(bm_path)) \o "/"
                    \o safe_std_slug(m.standard) \o "/" \o m.category \o "/"
                    \o m.filename

\* Outside the piping categories the id is composed that way.
IdComposedOutsidePiping ==
    (Built /\ bm_meta.ret.category \notin PIP_CATEGORIES) =>
        LET m == bm_meta.ret
        IN  m.id \o ".svg" =
                source_slug_from_path(SourceParts(bm_path)) \o "/"
                    \o safe_std_slug(m.standard) \o "/" \o m.category \o "/"
                    \o m.filename

(***************************************************************************)
(* Properties of _source_slug_from_path                                    *)
(***************************************************************************)
UnderInput(parts, folder) ==
    Len(parts) >= 3 /\ parts[1] = <<"input">> /\ parts[2] = <<folder>>

\* C22: the slug is autocad_parser for a path under input/autocad-parser,
\* pid_symbols_generator_<sub> for a path under
\* input/pid-symbols-generator/<sub>, and unknown_source for a path under
\* neither of the two folders.
C22_SourceSlugByFolder ==
    sl_result # Pending =>
        /\ UnderInput(sl_path, "autocad-parser") => sl_result.ret = "autocad_parser"
        /\ (UnderInput(sl_path, "pid-symbols-generator") /\ Len(sl_path) >= 4) =>
               sl_result.ret = "pid_symbols_generator_" \o slugify(sl_path[3])
        /\ (Len(sl_path) < 2
                \/ sl_path[1] # <<"input">>
                \/ sl_path[2] \notin {<<"autocad-parser">>, <<"pid-symbols-generator">>})
               => sl_result.ret = "unknown_source"

\* The two known folders alone.
KnownSourceSlugs ==
    sl_result # Pending =>
        /\ UnderInput(sl_path, "autocad-parser") => sl_result.ret = "autocad_parser"
        /\ (UnderInput(sl_path, "pid-symbols-generator") /\ Len(sl_path) >= 4) =>
               sl_result.ret = "pid_symbols_generator_" \o slugify(sl_path[3])

(***************************************************************************)
(* Properties of the path configuration                                    *)
(***************************************************************************)
\* the directory most recently configured since the last reset, NoDir if
\* none: which is "input_dir" or "output_dir"
RECURSIVE LastConfigured(_, _)
LastConfigured(calls, which) ==
    IF calls = <<>> THEN NoDir
    ELSE LET c == calls[Len(calls)]
             arg == IF which = "input_dir" THEN c.input_dir ELSE c.output_dir
         IN  IF c.call = "reset" THEN NoDir
             ELSE IF arg # NoDir THEN arg
             ELSE LastConfigured(SubSeq(calls, 1, Len(calls) - 1), which)

C30_ModuleNamesFollowPaths ==
    /\ pt_module.REPO_ROOT = Paths_REPO_ROOT
    /\ pt_module.INPUT_DIR = Paths_INPUT_DIR
    /\ pt_module.PROCESSED_DIR = Paths_PROCESSED_DIR

\* While nothing is configured the module-level names and the properties
\* agree.
ModuleNamesAreTheDefaults ==
    (pt_input_dir = NoDir /\ pt_processed_dir = NoDir) =>
        /\ pt_module.REPO_ROOT = Paths_REPO_ROOT
        /\ pt_module.INPUT_DIR = Paths_INPUT_DIR
        /\ pt_module.PROCESSED_DIR = Paths_PROCESSED_DIR

(***************************************************************************)
(* Properties of migrate_to_source_hierarchy                               *)
(***************************************************************************)
MigRewritten == mg_pc = "done" /\ mg_registry # None
MigHashed(symbols) == {i \in DOMAIN symbols : symbols[i].content_hash # ""}

\* C26: after migrate_to_source_hierarchy completes, the rewritten registry
\* holds at most one record per content hash: of two records with the same
\* hash only the higher-quality one is kept.
C26_OneRecordPerHash ==
    MigRewritten =>
        \A a, b \in MigHashed(mg_registry.symbols) :
            a # b => mg_registry.symbols[a].content_hash
                        # mg_registry.symbols[b].content_hash

\* a later file of the same hash and no better quality is never moved, and
\* hash_map holds for each hash a record no worse than any record moved
LaterCopyNoBetterIsDropped ==
    \A h \in DOMAIN mg_hash_map :
        \A i \in DOMAIN mg_moves :
            mg_moves[i].meta.content_hash = h =>
                /\ metadata_quality(mg_moves[i].meta) <= metadata_quality(mg_hash_map[h])
                /\ \A k \in DOMAIN mg_moves :
                      (i < k /\ mg_moves[k].meta.content_hash = h) =>
                          metadata_quality(mg_moves[i].meta)
                              < metadata_quality(mg_moves[k].meta)

\* a registry rewritten from two files of one hash, the better one later
TwoOfOneHashMoved ==
    /\ MigRewritten
    /\ \E a, b \in MigHashed(mg_registry.symbols) :
          /\ a < b
          /\ mg_registry.symbols[a].content_hash = mg_registry.symbols[b].content_hash

====
